---- MODULE Spec2Model ----
(***************************************************************************)
(* Stream supervision layer of camera_app.                                 *)
(*                                                                         *)
(*   recorder.py  RTSPRecorder : one main thread that launches one ffmpeg  *)
(*                subprocess per enabled camera, polls them every          *)
(*                ffmpeg_reconnect_delay seconds and relaunches the ones    *)
(*                that exited; SIGINT/SIGTERM run _signal_handler on that  *)
(*                same thread, between any two statements.                 *)
(*   app.py       CameraStream : one capture thread per camera writing a   *)
(*                frame slot under frame_lock, read by get_frame.          *)
(*                                                                         *)
(* Time is discrete and statements are instantaneous.  In the recorder the *)
(* clock advances inside time.sleep and Popen.wait, one unit at a time;    *)
(* subprocesses exit on their own between any two steps of the program.    *)
(* In the camera worker the clock advances while every thread waits; the   *)
(* age of the cached frame, time.time() - last_frame_time, is kept instead *)
(* of the two timestamps, and ages of StaleAfter and more are one value.   *)
(***************************************************************************)
EXTENDS Integers, Sequences, FiniteSets, TLC

(* ------------------------------ bounds -------------------------------- *)
MaxTime == 6          \* clock horizon of Spec
MaxChainTime == 10    \* clock horizon of SpecChain
MaxRunTime == 700     \* clock horizon of SpecCadence
MaxEpoch == 1         \* time.time() at the start of the loop in SpecCadence is 0..MaxEpoch
MaxProcs == 4         \* subprocesses launched
MaxSignals == 2       \* termination signals delivered
FreeDelay == 1        \* ffmpeg_reconnect_delay in Spec
MaxDelay == 2         \* ffmpeg_reconnect_delay in SpecChain is 1..MaxDelay
MaxSegment == 4       \* segment_duration in SpecChain is 1..MaxSegment

MaxThreads == 2       \* capture threads ever started for one CameraStream
MaxHandles == 2       \* cv2.VideoCapture objects ever created for one CameraStream
MaxFrames == 2        \* frames of the camera that are told apart
NReaders == 2         \* concurrent callers of get_frame

(* ------------------------ program constants --------------------------- *)
SettleDelay == 2
StopWait == 10
StaleAfter == 10
JoinTimeout == 2
ConnectBackoff == 5
ReadBackoff == 2
ErrorBackoff == 5
StatusPeriod == 300

(* config['cameras'] : ids are unique, the third camera is disabled *)
Cameras ==
  << [id |-> 1, enabled |-> TRUE],
     [id |-> 2, enabled |-> TRUE],
     [id |-> 3, enabled |-> FALSE] >>

CamIds == {Cameras[k].id : k \in 1..Len(Cameras)}
EnabledIds == {Cameras[k].id : k \in {j \in 1..Len(Cameras) : Cameras[j].enabled}}

VARIABLES
  (* ---- RTSPRecorder ---- *)
  processes,    \* self.processes : insertion-ordered dict, a sequence of [cam, pid]
  rec_running,  \* self.running
  procs,        \* every subprocess.Popen object ever created, indexed by pid
  now,          \* the clock (time.time(), datetime.now())
  rpc,          \* position of the main thread
  ctx,          \* "main", "handler" (inside _signal_handler) or "finally"
  inTry,        \* the interrupted main frame is inside run()'s try body
  caller,       \* where start_recording returns to; in SpecStop, the function that was called
  i,            \* loop index over config['cameras']
  cur,          \* camera / camera_id argument of the current call
  process,      \* local variable `process` of start_recording / stop_recording
  keys,         \* rest of list(self.processes.keys()) in stop_all_recordings
  sleepLeft,    \* units left of the current time.sleep / wait(timeout)
  signals,      \* termination signals delivered so far
  mock,         \* behaviour of the transcoder: "free", "fixed" or "steady"
  config,       \* self.config : ffmpeg_reconnect_delay, segment_duration
  ticks,        \* completed time.sleep(ffmpeg_reconnect_delay), i.e. reconcile passes begun
  pass,         \* history of the current check_and_restart_recordings pass
  immediate     \* history: the latest start_recording of the camera found its process exited at the settle poll

VARIABLES
  (* ---- CameraStream ---- *)
  cs_running,       \* self.running
  cap,              \* self.cap : 0 (None) or a handle
  last_frame,       \* self.last_frame : 0 (None) or a frame
  last_frame_time,  \* self.last_frame_time : [of, age], age = time.time() - last_frame_time
  frame_lock,       \* self.frame_lock : << >> when free, else its holder
  thread,           \* self.thread : 0 (None) or a capture thread
  threads,          \* the capture threads started so far
  handles,          \* the cv2.VideoCapture objects created so far
  ctl,              \* the thread calling start() and stop(); wasRunning, n, t, rd are history
  readers,          \* the threads calling get_frame()
  nframes,          \* frames delivered by the camera so far
  committed,        \* history: the latest completed frame write, [frame, age]
  stopped           \* history: stop() has returned and start() was not called since

cvars == << cs_running, cap, last_frame, last_frame_time, frame_lock, thread, threads,
            handles, ctl, readers, nframes, committed, stopped >>

rvars == << processes, rec_running, procs, now, rpc, ctx, inTry, caller, i, cur,
            process, keys, sleepLeft, signals, mock, config, ticks, pass, immediate >>

VARIABLES
  (* ---- RTSPWebServer and the camera it talks to ---- *)
  cameras,      \* keys of self.cameras : the camera ids that have a CameraStream
  wpc,          \* position of the web server: "new", "serving" or "ended"
  link,         \* behaviour of the camera: "any", "down" when every open fails,
                \* "up" when every open and every read succeeds
  route         \* a request thread in the /status route: its position and its answer

wvars == << cameras, wpc, link, route >>

VARIABLES
  (* ---- the console of the recorder and the installation ---- *)
  last_status,  \* time.time() of the last status line of the loop, or of its start
  config_file   \* config.json as json.load finds it: "ok", "missing" or "invalid"

svars == << last_status, config_file >>

VARIABLES
  (* ---- SystemManager (start_system.py) ---- *)
  sm_processes, \* self.processes : the names of the registered components, in
                \* the order of their registration
  sm_running,   \* self.running
  children,     \* each component's process: "none", "running" or "exited"
  mpc,          \* position of the manager's main thread
  mctx,         \* who runs stop_all_processes: "main", "handler" or "finally"
  minTry,       \* the try block of run() has been entered and not left
  mkeys,        \* the names still to visit in the running snapshot loop
  msignals,     \* termination signals delivered to the manager
  args          \* the arguments of run(), start_recorder and start_web, and
                \* whether run() finds config.json

mvars == << sm_processes, sm_running, children, mpc, mctx, minTry, mkeys, msignals, args >>

vars == << rvars, cvars, wvars, svars, mvars >>

(* ------------------------ the process table --------------------------- *)
\* camera_id in self.processes
InProcesses(ps, c) == \E k \in 1..Len(ps) : ps[k].cam = c

\* self.processes[camera_id]
Handle(ps, c) == ps[CHOOSE k \in 1..Len(ps) : ps[k].cam = c].pid

\* del self.processes[camera_id]
DelNone(ps, c) == ps

Del(ps, c) == SelectSeq(ps, LAMBDA e : e.cam # c)

\* self.processes[camera_id] = process
Put(ps, c, p) ==
  IF InProcesses(ps, c)
    THEN [k \in 1..Len(ps) |-> IF ps[k].cam = c THEN [cam |-> c, pid |-> p] ELSE ps[k]]
    ELSE Append(ps, [cam |-> c, pid |-> p])

\* list(self.processes.keys())
Keys(ps) == [k \in 1..Len(ps) |-> ps[k].cam]

\* process.poll() is None
PollNone(p) == procs[p].state = "running"

\* output_file of _build_ffmpeg_command: camera id and timestamp at one-second resolution
OutputFileNoTimestamp(c, t) == << c, 0 >>

OutputFile(c, t) == << c, t >>

NoPass == [c \in CamIds |-> [seen |-> "none", old |-> 0, calls |-> 0, launched |-> 0]]

(* ------------------------------ Init ---------------------------------- *)
RecInit ==
  /\ processes = << >>
  /\ rec_running = TRUE
  /\ procs = << >>
  /\ now = 0
  /\ rpc = "run_init"
  /\ ctx = "main"
  /\ inTry = FALSE
  /\ caller = "run_init"
  /\ i = 1
  /\ cur = 0
  /\ process = 0
  /\ keys = << >>
  /\ sleepLeft = 0
  /\ signals = 0
  /\ ticks = 0
  /\ pass = NoPass
  /\ immediate = [c \in CamIds |-> FALSE]
  /\ last_status = 0
  /\ config_file = "ok"

NoReader == [pc |-> "idle", fresh |-> FALSE, tsOf |-> 0, res |-> 0, exp |-> 0]
NoThread == [pc |-> "dead", h |-> 0, frame |-> 0, left |-> 0]

\* CameraStream.__init__
CamInit ==
  /\ cs_running = FALSE
  /\ cap = 0
  /\ last_frame = 0
  /\ last_frame_time = [of |-> 0, age |-> StaleAfter]
  /\ frame_lock = << >>
  /\ thread = 0
  /\ threads = << >>
  /\ handles = << >>
  /\ ctl = [pc |-> "idle", joinLeft |-> 0, wasRunning |-> FALSE, n |-> 0, t |-> 0, rd |-> 0]
  /\ readers = [r \in 1..NReaders |-> NoReader]
  /\ nframes = 0
  /\ committed = [frame |-> 0, age |-> StaleAfter]
  /\ stopped = FALSE

\* RTSPWebServer.__init__ before _initialize_cameras
\* no request is being served
NoRequest == [pc |-> "idle", connected |-> FALSE, last_frame |-> 0]

\* the components that run() can start, in the order in which it starts them
Components == << "Grabador", "Servidor Web" >>
Names == {Components[k] : k \in 1..Len(Components)}

\* SystemManager.__init__, before run() is called with both components asked for
ManInit ==
  /\ sm_processes = << >>
  /\ sm_running = TRUE
  /\ children = [n \in Names |-> "none"]
  /\ mpc = "m_run"
  /\ mctx = "main"
  /\ minTry = FALSE
  /\ mkeys = << >>
  /\ msignals = 0
  /\ args = [start |-> [n \in Names |-> TRUE], exists |-> TRUE]

WebInit ==
  /\ cameras = {}
  /\ wpc = "new"
  /\ link = "any"
  /\ route = NoRequest

Init ==
  /\ RecInit
  /\ CamInit
  /\ ManInit
  /\ WebInit
  /\ mock = "free"
  /\ config = [ffmpeg_reconnect_delay |-> FreeDelay, segment_duration |-> MaxSegment]

InitChain ==
  /\ RecInit
  /\ CamInit
  /\ ManInit
  /\ WebInit
  /\ mock = "fixed"
  /\ config \in [ffmpeg_reconnect_delay : 1..MaxDelay, segment_duration : 1..MaxSegment]

(* --------------------------- time.sleep ------------------------------- *)
\* In "fixed" mode a transcoder exits exactly segment_duration after its launch:
\* the clock does not pass that instant while the process still runs.
Horizon ==
  IF mock = "fixed" THEN MaxChainTime ELSE IF mock = "steady" THEN MaxRunTime ELSE MaxTime

ClockMayAdvance ==
  /\ now < Horizon
  /\ mock = "fixed" =>
       \A p \in 1..Len(procs) :
         procs[p].state = "running" => now < procs[p].start + config.segment_duration

(* ---------------------- RTSPRecorder.run ------------------------------ *)
\* for camera in self.config['cameras']: if camera['enabled']: self.start_recording(camera)
RunInit ==
  /\ rpc = "run_init"
  /\ IF i > Len(Cameras)
       THEN /\ rpc' = "loop_test"
            /\ inTry' = TRUE
            /\ UNCHANGED << i, cur, caller >>
       ELSE /\ i' = i + 1
            /\ inTry' = inTry
            /\ IF Cameras[i].enabled
                 THEN /\ cur' = Cameras[i].id
                      /\ caller' = "run_init"
                      /\ rpc' = "sr_guard"
                 ELSE UNCHANGED << cur, caller, rpc >>
  /\ UNCHANGED << processes, rec_running, procs, now, ctx, process, keys,
                  sleepLeft, signals, mock, config, ticks, pass, immediate >>
  /\ UNCHANGED << cvars, wvars, svars, mvars >>

\* while self.running:
LoopTest ==
  /\ rpc = "loop_test"
  /\ IF rec_running
       THEN /\ rpc' = "loop_sleep"
            /\ sleepLeft' = config.ffmpeg_reconnect_delay
            /\ UNCHANGED << ctx, inTry, keys >>
       ELSE /\ rpc' = "sa_iter"
            /\ ctx' = "finally"
            /\ inTry' = FALSE
            /\ keys' = Keys(processes)
            /\ UNCHANGED sleepLeft
  /\ UNCHANGED << processes, rec_running, procs, now, caller, i, cur, process,
                  signals, mock, config, ticks, pass, immediate >>
  /\ UNCHANGED << cvars, wvars, svars, mvars >>

\* time.sleep(self.config['ffmpeg_reconnect_delay'])
LoopSleep ==
  /\ rpc = "loop_sleep"
  /\ IF sleepLeft > 0
       THEN /\ ClockMayAdvance
            /\ now' = now + 1
            /\ sleepLeft' = sleepLeft - 1
            /\ UNCHANGED << rpc, i, ticks, pass >>
       ELSE /\ rpc' = "car"
            /\ i' = 1
            /\ ticks' = ticks + 1
            /\ pass' = NoPass
            /\ UNCHANGED << now, sleepLeft >>
  /\ UNCHANGED << processes, rec_running, procs, ctx, inTry, caller, cur, process,
                  keys, signals, mock, config, immediate >>
  /\ UNCHANGED << cvars, wvars, svars, mvars >>

(* --------------- RTSPRecorder.check_and_restart_recordings ------------ *)
\* the restart test of one loop iteration (line 179)
NeedsRestartAlways(c) == TRUE

NeedsRestartRegisteredOnly(c) ==
  InProcesses(processes, c) /\ ~PollNone(Handle(processes, c))

NeedsRestart(c) == ~InProcesses(processes, c) \/ ~PollNone(Handle(processes, c))

\* history: what the pass found when it examined camera c
Observed(c) ==
  [seen |-> IF ~InProcesses(processes, c) THEN "absent"
            ELSE IF PollNone(Handle(processes, c)) THEN "running" ELSE "exited",
   old |-> IF InProcesses(processes, c) THEN Handle(processes, c) ELSE 0,
   calls |-> pass[c].calls,
   launched |-> pass[c].launched]

CheckAndRestart ==
  /\ rpc = "car"
  /\ IF i > Len(Cameras)
       THEN /\ rpc' = "status"
            /\ UNCHANGED << i, cur, caller, processes, pass >>
       ELSE LET c == Cameras[i].id IN
            /\ i' = i + 1
            /\ IF ~Cameras[i].enabled
                 THEN UNCHANGED << rpc, cur, caller, processes, pass >>
                 ELSE /\ pass' = [pass EXCEPT ![c] = Observed(c)]
                      /\ IF NeedsRestart(c)
                           THEN /\ processes' = Del(processes, c)
                                /\ cur' = c
                                /\ caller' = "car"
                                /\ rpc' = "sr_guard"
                           ELSE UNCHANGED << rpc, cur, caller, processes >>
  /\ UNCHANGED << rec_running, procs, now, ctx, inTry, process, keys, sleepLeft,
                  signals, mock, config, ticks, immediate >>
  /\ UNCHANGED << cvars, wvars, svars, mvars >>

\* int(time.time()) % 300 == 0
StatusDue(t) == t % StatusPeriod = 0

\* if int(time.time()) % 300 == 0: print(status)
Status ==
  /\ rpc = "status"
  /\ rpc' = "loop_test"
  /\ pass' = NoPass
  /\ last_status' = IF StatusDue(now) THEN now ELSE last_status
  /\ UNCHANGED << config_file, mvars >>
  /\ UNCHANGED << processes, rec_running, procs, now, ctx, inTry, caller, i, cur,
                  process, keys, sleepLeft, signals, mock, config, ticks, immediate >>
  /\ UNCHANGED << cvars, wvars >>

(* -------------------- RTSPRecorder.start_recording -------------------- *)
\* if camera_id in self.processes and self.processes[camera_id].poll() is None: return
AlreadyRecordingNever(c) == FALSE

AlreadyRecording(c) == InProcesses(processes, c) /\ PollNone(Handle(processes, c))

SrGuard ==
  /\ rpc = "sr_guard"
  /\ rpc' = IF AlreadyRecording(cur) THEN caller ELSE "sr_popen"
  /\ immediate' = [immediate EXCEPT ![cur] = FALSE]
  /\ pass' = IF caller = "car" THEN [pass EXCEPT ![cur].calls = @ + 1] ELSE pass
  /\ UNCHANGED << processes, rec_running, procs, now, ctx, inTry, caller, i, cur,
                  process, keys, sleepLeft, signals, mock, config, ticks >>
  /\ UNCHANGED << cvars, wvars, svars, mvars >>

\* except FileNotFoundError / except Exception: the message is printed and
\* start_recording returns to its caller
LaunchErrorSkipsPass == "status"

LaunchErrorReturn == caller

\* cmd = self._build_ffmpeg_command(camera); process = subprocess.Popen(cmd, ...)
\* Popen raises FileNotFoundError (or another exception) or creates a process.
SrPopen ==
  /\ rpc = "sr_popen"
  /\ \/ /\ Len(procs) < MaxProcs
        /\ procs' = Append(procs, [cam |-> cur, state |-> "running", returncode |-> -1,
                                   start |-> now, file |-> OutputFile(cur, now),
                                   settle |-> "pending", terminated |-> FALSE,
                                   killed |-> FALSE])
        /\ process' = Len(procs) + 1
        /\ sleepLeft' = SettleDelay
        /\ rpc' = "sr_sleep"
        /\ pass' = IF caller = "car"
                     THEN [pass EXCEPT ![cur].launched = @ + 1]
                     ELSE pass
        /\ UNCHANGED immediate
     \/ /\ mock = "free"
        /\ rpc' = LaunchErrorReturn
        /\ UNCHANGED immediate
        /\ UNCHANGED << procs, process, sleepLeft, pass >>
  /\ UNCHANGED << processes, rec_running, now, ctx, inTry, caller, i, cur, keys,
                  signals, mock, config, ticks >>
  /\ UNCHANGED << cvars, wvars, svars, mvars >>

\* time.sleep(2)
SrSleep ==
  /\ rpc = "sr_sleep"
  /\ sleepLeft > 0
  /\ ClockMayAdvance
  /\ now' = now + 1
  /\ sleepLeft' = sleepLeft - 1
  /\ UNCHANGED << processes, rec_running, procs, rpc, ctx, inTry, caller, i, cur,
                  process, keys, signals, mock, config, ticks, pass, immediate >>
  /\ UNCHANGED << cvars, wvars, svars, mvars >>

\* if process.poll() is not None: ...; return
SettleFailedNever(p) == FALSE

SettleFailed(p) == ~PollNone(p)

\* the settle poll, then self.processes[camera_id] = process
SrPoll ==
  /\ rpc = "sr_sleep"
  /\ sleepLeft = 0
  /\ processes' = IF SettleFailed(process)
                    THEN processes
                    ELSE Put(processes, cur, process)
  /\ procs' = [procs EXCEPT ![process].settle =
                               IF PollNone(process) THEN "running" ELSE "exited"]
  /\ immediate' = [immediate EXCEPT ![cur] = ~PollNone(process)]
  /\ rpc' = caller
  /\ process' = 0
  /\ UNCHANGED << rec_running, now, ctx, inTry, caller, i, cur, keys, sleepLeft,
                  signals, mock, config, ticks, pass >>
  /\ UNCHANGED << cvars, wvars, svars, mvars >>

(* ------------- RTSPRecorder.stop_all_recordings / stop_recording ------ *)
\* for camera_id in list(self.processes.keys()): self.stop_recording(camera_id)
StopAll ==
  /\ rpc = "sa_iter"
  /\ IF keys = << >>
       THEN /\ rpc' = IF ctx = "handler" THEN "sig_exit" ELSE "exited"
            /\ UNCHANGED << keys, cur >>
       ELSE /\ cur' = Head(keys)
            /\ keys' = Tail(keys)
            /\ rpc' = "st_check"
  /\ UNCHANGED << processes, rec_running, procs, now, ctx, inTry, caller, i,
                  process, sleepLeft, signals, mock, config, ticks, pass, immediate >>
  /\ UNCHANGED << cvars, wvars, svars, mvars >>

\* if camera_id in self.processes: process = ...; if process.poll() is None:
StCheck ==
  /\ rpc = "st_check"
  /\ IF InProcesses(processes, cur)
       THEN /\ process' = Handle(processes, cur)
            /\ rpc' = IF PollNone(Handle(processes, cur)) THEN "st_term" ELSE "st_del"
       ELSE /\ rpc' = "sa_iter"
            /\ UNCHANGED process
  /\ UNCHANGED << processes, rec_running, procs, now, ctx, inTry, caller, i, cur,
                  keys, sleepLeft, signals, mock, config, ticks, pass, immediate >>
  /\ UNCHANGED << cvars, wvars, svars, mvars >>

\* process.terminate(): the call is recorded whether or not the process still runs
StTerminate ==
  /\ rpc = "st_term"
  /\ procs' = [procs EXCEPT ![process].terminated = TRUE]
  /\ sleepLeft' = StopWait
  /\ rpc' = "st_wait"
  /\ UNCHANGED << processes, rec_running, now, ctx, inTry, caller, i, cur, process,
                  keys, signals, mock, config, ticks, pass, immediate >>
  /\ UNCHANGED << cvars, wvars, svars, mvars >>

\* subprocess.TimeoutExpired is raised: the 10 units have passed
WaitTimedOutAtOnce == TRUE

WaitTimedOutNever == FALSE

WaitTimedOut == sleepLeft = 0

\* process.wait(timeout=10).  Nothing reads the clock once shutdown has begun:
\* the timeout is counted on sleepLeft and the clock stops at the horizon.
StWait ==
  /\ rpc = "st_wait"
  /\ IF ~PollNone(process)
       THEN /\ rpc' = "st_del"
            /\ UNCHANGED << now, sleepLeft >>
       ELSE IF ~WaitTimedOut
         THEN /\ now' = IF now < Horizon THEN now + 1 ELSE now
              /\ sleepLeft' = IF sleepLeft > 0 THEN sleepLeft - 1 ELSE 0
              /\ UNCHANGED rpc
         ELSE /\ rpc' = "st_kill"
              /\ UNCHANGED << now, sleepLeft >>
  /\ UNCHANGED << processes, rec_running, procs, ctx, inTry, caller, i, cur, process,
                  keys, signals, mock, config, ticks, pass, immediate >>
  /\ UNCHANGED << cvars, wvars, svars, mvars >>

\* except subprocess.TimeoutExpired: process.kill(); the call is recorded whether
\* or not the process still runs
StKill ==
  /\ rpc = "st_kill"
  /\ procs' = IF PollNone(process)
                THEN [procs EXCEPT ![process].state = "exited",
                                   ![process].returncode = -9,
                                   ![process].killed = TRUE]
                ELSE [procs EXCEPT ![process].killed = TRUE]
  /\ rpc' = "st_del"
  /\ UNCHANGED << processes, rec_running, now, ctx, inTry, caller, i, cur, process,
                  keys, sleepLeft, signals, mock, config, ticks, pass, immediate >>
  /\ UNCHANGED << cvars, wvars, svars, mvars >>

\* del self.processes[camera_id]
StDel ==
  /\ rpc = "st_del"
  /\ processes' = Del(processes, cur)
  /\ process' = 0
  /\ rpc' = "sa_iter"
  /\ UNCHANGED << rec_running, procs, now, ctx, inTry, caller, i, cur, keys,
                  sleepLeft, signals, mock, config, ticks, pass, immediate >>
  /\ UNCHANGED << cvars, wvars, svars, mvars >>

(* -------------------- RTSPRecorder._signal_handler -------------------- *)
\* SIGINT / SIGTERM: the handler runs on the main thread, on top of whatever
\* it was executing; self.running = False; self.stop_all_recordings().
\* The handler always ends in sys.exit(0), so the interrupted frames are never
\* resumed: their locals are dead and are reset here.
SignalHandler ==
  /\ rpc \notin {"load", "exited"}
  /\ signals < MaxSignals
  /\ signals' = signals + 1
  /\ rec_running' = FALSE
  /\ ctx' = "handler"
  /\ keys' = Keys(processes)
  /\ rpc' = "sa_iter"
  /\ i' = 1
  /\ caller' = "run_init"
  /\ cur' = 0
  /\ process' = 0
  /\ sleepLeft' = 0
  /\ pass' = NoPass
  /\ UNCHANGED << processes, procs, now, inTry, mock, config, ticks, immediate >>
  /\ UNCHANGED << cvars, wvars, svars, mvars >>

\* where the main thread is once sys.exit(0) has unwound frames without a
\* finally block: nowhere, the interrupted code is not resumed
UnwoundResumes == "run_init"

Unwound == "exited"

\* sys.exit(0): SystemExit unwinds the handler and the interrupted frames; no
\* except clause catches it; run()'s finally block runs if the try was entered.
SigExit ==
  /\ rpc = "sig_exit"
  /\ IF inTry
       THEN /\ ctx' = "finally"
            /\ inTry' = FALSE
            /\ keys' = Keys(processes)
            /\ rpc' = "sa_iter"
       ELSE /\ rpc' = Unwound
            /\ UNCHANGED << ctx, inTry, keys >>
  /\ UNCHANGED << processes, rec_running, procs, now, caller, i, cur, process,
                  sleepLeft, signals, mock, config, ticks, pass, immediate >>
  /\ UNCHANGED << cvars, wvars, svars, mvars >>

(* --------------------------- the transcoder --------------------------- *)
\* an ffmpeg subprocess exits on its own
ProcExit ==
  \E p \in 1..Len(procs) :
    /\ procs[p].state = "running"
    /\ IF mock = "fixed"
         THEN /\ now = procs[p].start + config.segment_duration
              /\ procs' = [procs EXCEPT ![p].state = "exited", ![p].returncode = 0]
         ELSE \E rc \in {0, 1} :
                procs' = [procs EXCEPT ![p].state = "exited", ![p].returncode = rc]
    /\ UNCHANGED << processes, rec_running, now, rpc, ctx, inTry, caller, i, cur,
                    process, keys, sleepLeft, signals, mock, config, ticks, pass, immediate >>
    /\ UNCHANGED << cvars, wvars, svars, mvars >>

(* --------------------------- specifications --------------------------- *)
Next ==
  \/ RunInit
  \/ LoopTest
  \/ LoopSleep
  \/ CheckAndRestart
  \/ Status
  \/ SrGuard
  \/ SrPopen
  \/ SrSleep
  \/ SrPoll
  \/ StopAll
  \/ StCheck
  \/ StTerminate
  \/ StWait
  \/ StKill
  \/ StDel
  \/ SignalHandler
  \/ SigExit
  \/ ProcExit

Spec == Init /\ [][Next]_vars

NextChain ==
  \/ RunInit
  \/ LoopTest
  \/ LoopSleep
  \/ CheckAndRestart
  \/ Status
  \/ SrGuard
  \/ SrPopen
  \/ SrSleep
  \/ SrPoll
  \/ ProcExit

SpecChain == InitChain /\ [][NextChain]_vars

(* ------------------ RTSPWebServer._initialize_cameras ------------------ *)
\* if camera_config['enabled']:
ShouldStreamAll(k) == TRUE

ShouldStream(k) == Cameras[k].enabled

\* self.config is the mapping that json.load returned: _load_config did not
\* end in one of its except clauses
ConfigLoadedAlways == TRUE

ConfigLoaded == config_file = "ok"

\* _initialize_cameras: if not self.config: return; for camera_config in
\* self.config['cameras']: ... self.cameras[camera_id] = CameraStream(camera_config);
\* self.cameras[camera_id].start(); then main: if server.config: server.run(),
\* else the process ends
InitializeCameras ==
  /\ wpc = "new"
  /\ wpc' = IF ConfigLoaded THEN "serving" ELSE "ended"
  /\ cameras' = IF ConfigLoaded
                  THEN {Cameras[k].id : k \in {j \in 1..Len(Cameras) : ShouldStream(j)}}
                  ELSE {}
  /\ UNCHANGED << link, route >>
  /\ UNCHANGED << rvars, cvars, svars, mvars >>

\* the recorder and the web server of one installation, on one config file
NextSys ==
  \/ Next
  \/ InitializeCameras

SpecSys == Init /\ [][NextSys]_vars

(* --------------------------- loading config.json ---------------------- *)
\* RTSPRecorder.__init__: self.config = self._load_config(config_path), which
\* ends the process with sys.exit(1) on FileNotFoundError and JSONDecodeError;
\* the signal handlers are installed after it
LoadConfig ==
  /\ rpc = "load"
  /\ rpc' = IF ConfigLoaded THEN "run_init" ELSE "exited"
  /\ UNCHANGED << processes, rec_running, procs, now, ctx, inTry, caller, i, cur,
                  process, keys, sleepLeft, signals, mock, config, ticks, pass, immediate >>
  /\ UNCHANGED << cvars, wvars, svars, mvars >>

\* the recorder and the web server are started on a config file that is
\* readable, missing or not JSON
InitBoot ==
  /\ CamInit
  /\ ManInit
  /\ WebInit
  /\ mock = "free"
  /\ config = [ffmpeg_reconnect_delay |-> FreeDelay, segment_duration |-> MaxSegment]
  /\ config_file \in {"ok", "missing", "invalid"}
  /\ last_status = 0
  /\ processes = << >>
  /\ rec_running = TRUE
  /\ procs = << >>
  /\ now = 0
  /\ rpc = "load"
  /\ ctx = "main"
  /\ inTry = FALSE
  /\ caller = "run_init"
  /\ i = 1
  /\ cur = 0
  /\ process = 0
  /\ keys = << >>
  /\ sleepLeft = 0
  /\ signals = 0
  /\ ticks = 0
  /\ pass = NoPass
  /\ immediate = [c \in CamIds |-> FALSE]

NextBoot ==
  \/ LoadConfig
  \/ NextSys

SpecBoot == InitBoot /\ [][NextBoot]_vars

\* The main thread keeps executing once shutdown has begun: the interpreter
\* runs the handler and the finally block to their end, and the clock of a
\* timed wait keeps advancing.  Nothing is assumed about the subprocesses.
ShutdownStep ==
  \/ StopAll
  \/ StCheck
  \/ StTerminate
  \/ StWait
  \/ StKill
  \/ StDel
  \/ SigExit

SpecLive == Init /\ [][Next]_vars /\ WF_vars(ShutdownStep)

(* stop_recording and stop_all_recordings as functions: the process table is
   any table the supervisor can hold (every registered process had passed its
   settle poll; it runs or has exited since), and the call is either
   stop_all_recordings() or stop_recording(c) for any camera id c. *)
Tables ==
  { << >>,
    << [cam |-> 1, pid |-> 1] >>,
    << [cam |-> 2, pid |-> 1] >>,
    << [cam |-> 1, pid |-> 1], [cam |-> 2, pid |-> 2] >>,
    << [cam |-> 2, pid |-> 1], [cam |-> 1, pid |-> 2] >> }

Registered(c, st) ==
  [cam |-> c, state |-> st, returncode |-> IF st = "running" THEN -1 ELSE 0,
   start |-> 0, file |-> OutputFile(c, 0), settle |-> "running",
   terminated |-> FALSE, killed |-> FALSE]

InitStop ==
  /\ CamInit
  /\ ManInit
  /\ WebInit
  /\ mock = "free"
  /\ config = [ffmpeg_reconnect_delay |-> FreeDelay, segment_duration |-> MaxSegment]
  /\ processes \in Tables
  /\ \E sts \in [1..Len(processes) -> {"running", "exited"}] :
       procs = [k \in 1..Len(processes) |-> Registered(processes[k].cam, sts[k])]
  /\ rec_running = FALSE
  /\ now = 0
  /\ ctx = "finally"
  /\ inTry = FALSE
  /\ i = 1
  /\ process = 0
  /\ sleepLeft = 0
  /\ signals = 0
  /\ ticks = 0
  /\ pass = NoPass
  /\ immediate = [c \in CamIds |-> FALSE]
  /\ last_status = 0
  /\ config_file = "ok"
  /\ \/ /\ caller = "stop_all"
        /\ rpc = "sa_iter"
        /\ keys = Keys(processes)
        /\ cur = 0
     \/ /\ caller = "stop_recording"
        /\ rpc = "st_check"
        /\ keys = << >>
        /\ cur \in CamIds

NextStop ==
  \/ StopAll
  \/ StCheck
  \/ StTerminate
  \/ StWait
  \/ StKill
  \/ StDel
  \/ ProcExit

SpecStop == InitStop /\ [][NextStop]_vars

\* start_recording as a function: any table of registered processes, running
\* or exited, and one call for any camera
InitStart ==
  /\ CamInit
  /\ ManInit
  /\ WebInit
  /\ mock = "free"
  /\ config = [ffmpeg_reconnect_delay |-> FreeDelay, segment_duration |-> MaxSegment]
  /\ processes \in Tables
  /\ \E sts \in [1..Len(processes) -> {"running", "exited"}] :
       procs = [k \in 1..Len(processes) |-> Registered(processes[k].cam, sts[k])]
  /\ rec_running = TRUE
  /\ now = 0
  /\ ctx = "main"
  /\ inTry = FALSE
  /\ i = 1
  /\ process = 0
  /\ sleepLeft = 0
  /\ signals = 0
  /\ ticks = 0
  /\ pass = NoPass
  /\ immediate = [c \in CamIds |-> FALSE]
  /\ last_status = 0
  /\ config_file = "ok"
  /\ keys = << >>
  /\ caller = "start_recording"
  /\ rpc = "sr_guard"
  /\ cur \in CamIds

NextStart ==
  \/ SrGuard
  \/ SrPopen
  \/ SrSleep
  \/ SrPoll
  \/ ProcExit

SpecStart == InitStart /\ [][NextStart]_vars

\* The supervisor loop on its own: run() has launched and registered both
\* enabled cameras and enters its loop at a time.time() of 0..MaxEpoch; the
\* transcoders keep running, so that no pass has anything to restart.
InitCadence ==
  /\ CamInit
  /\ ManInit
  /\ WebInit
  /\ mock = "steady"
  /\ config \in [ffmpeg_reconnect_delay : 1..MaxDelay, segment_duration : {MaxSegment}]
  /\ processes = << [cam |-> 1, pid |-> 1], [cam |-> 2, pid |-> 2] >>
  /\ procs = << Registered(1, "running"), Registered(2, "running") >>
  /\ rec_running = TRUE
  /\ now \in 0..MaxEpoch
  /\ last_status = now
  /\ config_file = "ok"
  /\ rpc = "loop_test"
  /\ ctx = "main"
  /\ inTry = TRUE
  /\ caller = "run_init"
  /\ i = 1
  /\ cur = 0
  /\ process = 0
  /\ keys = << >>
  /\ sleepLeft = 0
  /\ signals = 0
  /\ ticks = 0
  /\ pass = NoPass
  /\ immediate = [c \in CamIds |-> FALSE]

NextCadence ==
  \/ LoopTest
  \/ LoopSleep
  \/ CheckAndRestart
  \/ Status

SpecCadence == InitCadence /\ [][NextCadence]_vars

(* ============================ CameraStream ============================ *)
\* the recorder does not run in the specification of the camera worker
InitCam ==
  /\ RecInit
  /\ CamInit
  /\ ManInit
  /\ WebInit
  /\ mock = "free"
  /\ config = [ffmpeg_reconnect_delay |-> FreeDelay, segment_duration |-> MaxSegment]

\* the capture thread t has not returned from _capture_frames
Live(t) == threads[t].pc \notin {"dead", "crashed"}

\* cap.isOpened()
IsOpenedAlways(h) == TRUE

IsOpened(h) == handles[h].state = "open"

\* cap.release()
Release(hs, h) ==
  [hs EXCEPT ![h].state = "released",
             ![h].released = IF @ < 2 THEN @ + 1 ELSE @]

\* time.sleep(n) in the capture loop, then the next iteration
SleepFatal(t, n) == [threads EXCEPT ![t] = [NoThread EXCEPT !.pc = "crashed"]]

Sleep(t, n) == [threads EXCEPT ![t] = [pc |-> "sleep", h |-> 0, frame |-> 0, left |-> n]]

Goto(t, l) == [threads EXCEPT ![t].pc = l]

\* with self.frame_lock: the lock can be taken
CanAcquireAlways == TRUE

CanAcquire == frame_lock = << >>

\* what cv2.VideoCapture(url).isOpened() can be
OpenResults == IF link = "down" THEN {FALSE} ELSE IF link = "up" THEN {TRUE} ELSE BOOLEAN

\* while self.running:
LoopRunningAlways == TRUE

LoopRunning == cs_running

\* (time.time() - self.last_frame_time) < 10
FreshInclusive(age) == age <= StaleAfter

Fresh(age) == age < StaleAfter

(* ---------------------- CameraStream._capture_frames ------------------- *)
\* while self.running:
LoopTop(t) ==
  /\ threads[t].pc = "top"
  /\ threads' = IF LoopRunning THEN Goto(t, "chk") ELSE [threads EXCEPT ![t] = NoThread]
  /\ UNCHANGED << cs_running, cap, last_frame, last_frame_time, frame_lock, thread,
                  handles, ctl, readers, nframes, committed, stopped >>
  /\ UNCHANGED << rvars, wvars, svars, mvars >>

\* if self.cap is None or not self.cap.isOpened():
LoopCheck(t) ==
  /\ threads[t].pc = "chk"
  /\ threads' = IF cap = 0 \/ ~IsOpened(cap) THEN Goto(t, "conn_test") ELSE Goto(t, "read")
  /\ UNCHANGED << cs_running, cap, last_frame, last_frame_time, frame_lock, thread,
                  handles, ctl, readers, nframes, committed, stopped >>
  /\ UNCHANGED << rvars, wvars, svars, mvars >>

\* _connect_camera: if self.cap is not None:
ConnTest(t) ==
  /\ threads[t].pc = "conn_test"
  /\ threads' = IF cap # 0 THEN Goto(t, "conn_rel") ELSE Goto(t, "open")
  /\ UNCHANGED << cs_running, cap, last_frame, last_frame_time, frame_lock, thread,
                  handles, ctl, readers, nframes, committed, stopped >>
  /\ UNCHANGED << rvars, wvars, svars, mvars >>

\* _connect_camera: self.cap.release(); on None the AttributeError is caught,
\* _connect_camera returns False and the loop sleeps 5
ConnRelease(t) ==
  /\ threads[t].pc = "conn_rel"
  /\ IF cap = 0
       THEN /\ threads' = Sleep(t, ConnectBackoff)
            /\ UNCHANGED handles
       ELSE /\ handles' = Release(handles, cap)
            /\ threads' = Goto(t, "open")
  /\ UNCHANGED << cs_running, cap, last_frame, last_frame_time, frame_lock, thread,
                  ctl, readers, nframes, committed, stopped >>
  /\ UNCHANGED << rvars, wvars, svars, mvars >>

\* _connect_camera: cv2.VideoCapture(self.rtsp_url) is entered; it blocks
OpenBegin(t) ==
  /\ threads[t].pc = "open"
  /\ Len(handles) < MaxHandles
  /\ handles' = Append(handles, [state |-> "opening", opened |-> FALSE, released |-> 0])
  /\ threads' = [threads EXCEPT ![t].pc = "opening", ![t].h = Len(handles) + 1]
  /\ UNCHANGED << cs_running, cap, last_frame, last_frame_time, frame_lock, thread,
                  ctl, readers, nframes, committed, stopped >>
  /\ UNCHANGED << rvars, wvars, svars, mvars >>

\* _connect_camera: self.cap = <the new VideoCapture>, connected or not
OpenEnd(t) ==
  /\ threads[t].pc = "opening"
  /\ \E ok \in OpenResults :
       handles' = [handles EXCEPT ![threads[t].h].state = IF ok THEN "open" ELSE "failed",
                                  ![threads[t].h].opened = ok]
  /\ cap' = threads[t].h
  /\ threads' = [threads EXCEPT ![t].pc = "conn_chk", ![t].h = 0]
  /\ UNCHANGED << cs_running, last_frame, last_frame_time, frame_lock, thread,
                  ctl, readers, nframes, committed, stopped >>
  /\ UNCHANGED << rvars, wvars, svars, mvars >>

\* _connect_camera: self.cap.set(...); if not self.cap.isOpened(): raise; return True
\* every exception returns False, and the loop sleeps 5 and continues
ConnCheck(t) ==
  /\ threads[t].pc = "conn_chk"
  /\ threads' = IF cap # 0 /\ IsOpened(cap)
                  THEN Goto(t, "read")
                  ELSE Sleep(t, ConnectBackoff)
  /\ UNCHANGED << cs_running, cap, last_frame, last_frame_time, frame_lock, thread,
                  handles, ctl, readers, nframes, committed, stopped >>
  /\ UNCHANGED << rvars, wvars, svars, mvars >>

\* ret, frame = self.cap.read() is entered; it blocks
ReadBegin(t) ==
  /\ threads[t].pc = "read"
  /\ threads' = IF cap = 0
                  THEN Goto(t, "exc")
                  ELSE [threads EXCEPT ![t].pc = "reading", ![t].h = cap]
  /\ UNCHANGED << cs_running, cap, last_frame, last_frame_time, frame_lock, thread,
                  handles, ctl, readers, nframes, committed, stopped >>
  /\ UNCHANGED << rvars, wvars, svars, mvars >>

\* the frame that the next successful read delivers: frames are told apart up
\* to MaxFrames
NextFrameId == IF nframes < MaxFrames THEN nframes + 1 ELSE MaxFrames

\* self.cap.read() returns a frame, returns ret = False, or raises; a camera
\* that is up delivers frames without end
ReadEnd(t) ==
  /\ threads[t].pc = "reading"
  /\ \/ /\ IsOpened(threads[t].h)
        /\ nframes < MaxFrames \/ link = "up"
        /\ nframes' = NextFrameId
        /\ threads' = [threads EXCEPT ![t] =
                         [pc |-> "lock", h |-> 0, frame |-> NextFrameId, left |-> 0]]
     \/ /\ link # "up"
        /\ threads' = [threads EXCEPT ![t].pc = "fail_rel", ![t].h = 0]
        /\ UNCHANGED nframes
     \/ /\ link # "up"
        /\ threads' = [threads EXCEPT ![t].pc = "exc", ![t].h = 0]
        /\ UNCHANGED nframes
  /\ UNCHANGED << cs_running, cap, last_frame, last_frame_time, frame_lock, thread,
                  handles, ctl, readers, committed, stopped >>
  /\ UNCHANGED << rvars, wvars, svars, mvars >>

\* with self.frame_lock:
Acquire(t) ==
  /\ threads[t].pc = "lock"
  /\ CanAcquire
  /\ frame_lock' = << "capture", t >>
  /\ threads' = Goto(t, "w_frame")
  /\ UNCHANGED << cs_running, cap, last_frame, last_frame_time, thread,
                  handles, ctl, readers, nframes, committed, stopped >>
  /\ UNCHANGED << rvars, wvars, svars, mvars >>

\* self.last_frame = frame
WriteFrame(t) ==
  /\ threads[t].pc = "w_frame"
  /\ last_frame' = threads[t].frame
  /\ threads' = Goto(t, "w_time")
  /\ UNCHANGED << cs_running, cap, last_frame_time, frame_lock, thread,
                  handles, ctl, readers, nframes, committed, stopped >>
  /\ UNCHANGED << rvars, wvars, svars, mvars >>

\* self.last_frame_time = time.time()
WriteTime(t) ==
  /\ threads[t].pc = "w_time"
  /\ last_frame_time' = [of |-> threads[t].frame, age |-> 0]
  /\ committed' = [frame |-> threads[t].frame, age |-> 0]
  /\ threads' = Goto(t, "unlock")
  /\ UNCHANGED << cs_running, cap, last_frame, frame_lock, thread,
                  handles, ctl, readers, nframes, stopped >>
  /\ UNCHANGED << rvars, wvars, svars, mvars >>

\* the frame_lock once the with block of the capture loop has ended
UnlockedNever == frame_lock

Unlocked == << >>

\* end of the with block
Unlock(t) ==
  /\ threads[t].pc = "unlock"
  /\ frame_lock' = Unlocked
  /\ threads' = [threads EXCEPT ![t].pc = "top", ![t].frame = 0]
  /\ UNCHANGED << cs_running, cap, last_frame, last_frame_time, thread,
                  handles, ctl, readers, nframes, committed, stopped >>
  /\ UNCHANGED << rvars, wvars, svars, mvars >>

\* ret is False: self.cap.release(); on None the AttributeError goes to the except clause
FailRelease(t) ==
  /\ threads[t].pc = "fail_rel"
  /\ IF cap = 0
       THEN /\ threads' = Goto(t, "exc")
            /\ UNCHANGED handles
       ELSE /\ handles' = Release(handles, cap)
            /\ threads' = Goto(t, "fail_none")
  /\ UNCHANGED << cs_running, cap, last_frame, last_frame_time, frame_lock, thread,
                  ctl, readers, nframes, committed, stopped >>
  /\ UNCHANGED << rvars, wvars, svars, mvars >>

\* self.cap = None; time.sleep(2)
FailNone(t) ==
  /\ threads[t].pc = "fail_none"
  /\ cap' = 0
  /\ threads' = Sleep(t, ReadBackoff)
  /\ UNCHANGED << cs_running, last_frame, last_frame_time, frame_lock, thread,
                  handles, ctl, readers, nframes, committed, stopped >>
  /\ UNCHANGED << rvars, wvars, svars, mvars >>

\* except Exception: if self.cap: ... else time.sleep(5)
ExcTest(t) ==
  /\ threads[t].pc = "exc"
  /\ threads' = IF cap # 0 THEN Goto(t, "exc_rel") ELSE Sleep(t, ErrorBackoff)
  /\ UNCHANGED << cs_running, cap, last_frame, last_frame_time, frame_lock, thread,
                  handles, ctl, readers, nframes, committed, stopped >>
  /\ UNCHANGED << rvars, wvars, svars, mvars >>

\* inside the except clause: self.cap.release(); on None the AttributeError
\* leaves _capture_frames and ends the thread
ExcRelease(t) ==
  /\ threads[t].pc = "exc_rel"
  /\ IF cap = 0
       THEN /\ threads' = [threads EXCEPT ![t] = [NoThread EXCEPT !.pc = "crashed"]]
            /\ UNCHANGED handles
       ELSE /\ handles' = Release(handles, cap)
            /\ threads' = Goto(t, "exc_none")
  /\ UNCHANGED << cs_running, cap, last_frame, last_frame_time, frame_lock, thread,
                  ctl, readers, nframes, committed, stopped >>
  /\ UNCHANGED << rvars, wvars, svars, mvars >>

\* inside the except clause: self.cap = None; time.sleep(5)
ExcNone(t) ==
  /\ threads[t].pc = "exc_none"
  /\ cap' = 0
  /\ threads' = Sleep(t, ErrorBackoff)
  /\ UNCHANGED << cs_running, last_frame, last_frame_time, frame_lock, thread,
                  handles, ctl, readers, nframes, committed, stopped >>
  /\ UNCHANGED << rvars, wvars, svars, mvars >>

\* time.sleep returns
Wake(t) ==
  /\ threads[t].pc = "sleep"
  /\ threads[t].left = 0
  /\ threads' = Goto(t, "top")
  /\ UNCHANGED << cs_running, cap, last_frame, last_frame_time, frame_lock, thread,
                  handles, ctl, readers, nframes, committed, stopped >>
  /\ UNCHANGED << rvars, wvars, svars, mvars >>

(* ------------------------- CameraStream.start -------------------------- *)
\* start() is called
StartCall ==
  /\ ctl.pc = "idle"
  /\ cs_running \/ Len(threads) < MaxThreads
  /\ ctl' = [pc |-> "start", joinLeft |-> 0, wasRunning |-> cs_running,
             n |-> Len(threads), t |-> thread, rd |-> 0]
  /\ stopped' = FALSE
  /\ UNCHANGED << cs_running, cap, last_frame, last_frame_time, frame_lock, thread,
                  threads, handles, readers, nframes, committed >>
  /\ UNCHANGED << rvars, wvars, svars, mvars >>

\* if not self.running:
NotRunningAlways == TRUE

NotRunning == ~cs_running

\* self.running = True; self.thread = threading.Thread(...); self.thread.start()
StartBody ==
  /\ ctl.pc = "start"
  /\ IF NotRunning
       THEN /\ cs_running' = TRUE
            /\ threads' = Append(threads, [NoThread EXCEPT !.pc = "top"])
            /\ thread' = Len(threads) + 1
       ELSE UNCHANGED << cs_running, threads, thread >>
  /\ ctl' = [ctl EXCEPT !.pc = "start_ret"]
  /\ UNCHANGED << cap, last_frame, last_frame_time, frame_lock,
                  handles, readers, nframes, committed, stopped >>
  /\ UNCHANGED << rvars, wvars, svars, mvars >>

\* start() returns
StartReturn ==
  /\ ctl.pc = "start_ret"
  /\ ctl' = [pc |-> "idle", joinLeft |-> 0, wasRunning |-> FALSE, n |-> 0, t |-> 0, rd |-> 0]
  /\ UNCHANGED << cs_running, cap, last_frame, last_frame_time, frame_lock, thread,
                  threads, handles, readers, nframes, committed, stopped >>
  /\ UNCHANGED << rvars, wvars, svars, mvars >>

(* -------------------------- CameraStream.stop -------------------------- *)
\* stop() is called: self.running = False
StopCall ==
  /\ ctl.pc = "idle"
  /\ cs_running' = FALSE
  /\ ctl' = [ctl EXCEPT !.pc = "stop_join", !.joinLeft = JoinTimeout,
                         !.rd = IF thread # 0 /\ threads[thread].pc = "reading"
                                  THEN threads[thread].h ELSE 0]
  /\ stopped' = FALSE
  /\ UNCHANGED << cap, last_frame, last_frame_time, frame_lock, thread,
                  threads, handles, readers, nframes, committed >>
  /\ UNCHANGED << rvars, wvars, svars, mvars >>

\* if self.thread: self.thread.join(timeout=2) returns: the thread ended or
\* the timeout expired
StopJoin ==
  /\ ctl.pc = "stop_join"
  /\ IF thread = 0 THEN TRUE ELSE (~Live(thread) \/ ctl.joinLeft = 0)
  /\ ctl' = [ctl EXCEPT !.pc = "stop_test", !.joinLeft = 0]
  /\ UNCHANGED << cs_running, cap, last_frame, last_frame_time, frame_lock, thread,
                  threads, handles, readers, nframes, committed, stopped >>
  /\ UNCHANGED << rvars, wvars, svars, mvars >>

\* if self.cap:
StopTest ==
  /\ ctl.pc = "stop_test"
  /\ ctl' = [ctl EXCEPT !.pc = IF cap # 0 THEN "stop_rel" ELSE "stop_ret"]
  /\ UNCHANGED << cs_running, cap, last_frame, last_frame_time, frame_lock, thread,
                  threads, handles, readers, nframes, committed, stopped >>
  /\ UNCHANGED << rvars, wvars, svars, mvars >>

\* self.cap.release(); on None the AttributeError leaves stop()
StopRelease ==
  /\ ctl.pc = "stop_rel"
  /\ IF cap = 0
       THEN /\ ctl' = [ctl EXCEPT !.pc = "stop_raise"]
            /\ UNCHANGED handles
       ELSE /\ handles' = Release(handles, cap)
            /\ ctl' = [ctl EXCEPT !.pc = "stop_none"]
  /\ UNCHANGED << cs_running, cap, last_frame, last_frame_time, frame_lock, thread,
                  threads, readers, nframes, committed, stopped >>
  /\ UNCHANGED << rvars, wvars, svars, mvars >>

\* self.cap = None
StopNone ==
  /\ ctl.pc = "stop_none"
  /\ cap' = 0
  /\ ctl' = [ctl EXCEPT !.pc = "stop_ret"]
  /\ UNCHANGED << cs_running, last_frame, last_frame_time, frame_lock, thread,
                  threads, handles, readers, nframes, committed, stopped >>
  /\ UNCHANGED << rvars, wvars, svars, mvars >>

\* stop() returns, or the AttributeError reaches its caller
StopReturn ==
  /\ ctl.pc \in {"stop_ret", "stop_raise"}
  /\ stopped' = (ctl.pc = "stop_ret")
  /\ ctl' = [ctl EXCEPT !.pc = "idle", !.rd = 0]
  /\ UNCHANGED << cs_running, cap, last_frame, last_frame_time, frame_lock, thread,
                  threads, handles, readers, nframes, committed >>
  /\ UNCHANGED << rvars, wvars, svars, mvars >>

(* ------------------------ CameraStream.get_frame ----------------------- *)
\* get_frame() is called: with self.frame_lock:
GetAcquire(r) ==
  /\ readers[r].pc = "idle"
  /\ CanAcquire
  /\ frame_lock' = << "reader", r >>
  /\ readers' = [readers EXCEPT ![r].pc = "g_test"]
  /\ UNCHANGED << cs_running, cap, last_frame, last_frame_time, thread, threads,
                  handles, ctl, nframes, committed, stopped >>
  /\ UNCHANGED << rvars, wvars, svars, mvars >>

\* if self.last_frame is not None and (time.time() - self.last_frame_time) < 10:
\* otherwise the with block ends and None is returned
GetTest(r) ==
  /\ readers[r].pc = "g_test"
  /\ LET fresh == last_frame # 0 /\ Fresh(last_frame_time.age) IN
       /\ readers' = [readers EXCEPT ![r] =
            [pc |-> IF fresh THEN "g_copy" ELSE "g_ret",
             fresh |-> fresh,
             tsOf |-> last_frame_time.of,
             res |-> 0,
             exp |-> IF committed.frame = 0 \/ committed.age >= StaleAfter
                       THEN 0 ELSE committed.frame]]
       /\ frame_lock' = IF fresh THEN frame_lock ELSE << >>
  /\ UNCHANGED << cs_running, cap, last_frame, last_frame_time, thread, threads,
                  handles, ctl, nframes, committed, stopped >>
  /\ UNCHANGED << rvars, wvars, svars, mvars >>

\* return self.last_frame.copy(), which ends the with block
GetCopy(r) ==
  /\ readers[r].pc = "g_copy"
  /\ readers' = [readers EXCEPT ![r].pc = "g_ret", ![r].res = last_frame]
  /\ frame_lock' = << >>
  /\ UNCHANGED << cs_running, cap, last_frame, last_frame_time, thread, threads,
                  handles, ctl, nframes, committed, stopped >>
  /\ UNCHANGED << rvars, wvars, svars, mvars >>

\* the caller has the result
GetReturn(r) ==
  /\ readers[r].pc = "g_ret"
  /\ readers' = [readers EXCEPT ![r] = NoReader]
  /\ UNCHANGED << cs_running, cap, last_frame, last_frame_time, frame_lock, thread,
                  threads, handles, ctl, nframes, committed, stopped >>
  /\ UNCHANGED << rvars, wvars, svars, mvars >>

(* ------------------------------ the clock ------------------------------ *)
Older(a) == IF a < StaleAfter THEN a + 1 ELSE a

\* Statements take no time: the clock advances only while every thread waits,
\* in cv2 (open, read), in time.sleep, in join, for the lock, or between calls.
Waiting(t) ==
  \/ threads[t].pc \in {"opening", "reading", "dead", "crashed"}
  \/ threads[t].pc = "sleep" /\ threads[t].left > 0
  \/ threads[t].pc = "lock" /\ ~CanAcquire

CtlWaiting ==
  \/ ctl.pc = "idle"
  \/ ctl.pc = "stop_join" /\ ctl.joinLeft > 0 /\ thread # 0 /\ Live(thread)

\* one time unit passes: sleeps and the join timeout run down; the frame ages
\* if aging is TRUE
Passes(aging) ==
  /\ threads' = [t \in 1..Len(threads) |->
                   IF threads[t].pc = "sleep" /\ threads[t].left > 0
                     THEN [threads[t] EXCEPT !.left = @ - 1]
                     ELSE threads[t]]
  /\ ctl' = [ctl EXCEPT !.joinLeft = IF @ > 0 THEN @ - 1 ELSE @]
  /\ last_frame_time' = IF aging
                          THEN [last_frame_time EXCEPT !.age = Older(@)]
                          ELSE last_frame_time
  /\ committed' = IF aging THEN [committed EXCEPT !.age = Older(@)] ELSE committed
  /\ UNCHANGED << cs_running, cap, last_frame, frame_lock, thread, handles, readers,
                  nframes, stopped >>
  /\ UNCHANGED << rvars, wvars, svars, mvars >>

Clock(aging) ==
  /\ \A t \in 1..Len(threads) : Waiting(t)
  /\ CtlWaiting
  /\ \A r \in 1..NReaders : readers[r].pc = "idle"
  /\ Passes(aging)

Tick == Clock(TRUE)

\* a time unit passes in the middle of a call of start(): the calling thread
\* can be preempted for any time
TickStart ==
  /\ \A t \in 1..Len(threads) : Waiting(t)
  /\ ctl.pc \in {"start", "start_ret"}
  /\ \A r \in 1..NReaders : readers[r].pc = "idle"
  /\ Passes(TRUE)

\* SpecCam has no caller of get_frame: nothing reads the age of the frame there,
\* and the clock leaves it alone
TickCam == Clock(FALSE)

\* the life cycle of the worker: start(), stop() and the capture threads
NextCam ==
  \/ \E t \in 1..Len(threads) : LoopTop(t)
  \/ \E t \in 1..Len(threads) : LoopCheck(t)
  \/ \E t \in 1..Len(threads) : ConnTest(t)
  \/ \E t \in 1..Len(threads) : ConnRelease(t)
  \/ \E t \in 1..Len(threads) : OpenBegin(t)
  \/ \E t \in 1..Len(threads) : OpenEnd(t)
  \/ \E t \in 1..Len(threads) : ConnCheck(t)
  \/ \E t \in 1..Len(threads) : ReadBegin(t)
  \/ \E t \in 1..Len(threads) : ReadEnd(t)
  \/ \E t \in 1..Len(threads) : Acquire(t)
  \/ \E t \in 1..Len(threads) : WriteFrame(t)
  \/ \E t \in 1..Len(threads) : WriteTime(t)
  \/ \E t \in 1..Len(threads) : Unlock(t)
  \/ \E t \in 1..Len(threads) : FailRelease(t)
  \/ \E t \in 1..Len(threads) : FailNone(t)
  \/ \E t \in 1..Len(threads) : ExcTest(t)
  \/ \E t \in 1..Len(threads) : ExcRelease(t)
  \/ \E t \in 1..Len(threads) : ExcNone(t)
  \/ \E t \in 1..Len(threads) : Wake(t)
  \/ StartCall
  \/ StartBody
  \/ StartReturn
  \/ StopCall
  \/ StopJoin
  \/ StopTest
  \/ StopRelease
  \/ StopNone
  \/ StopReturn
  \/ TickCam

SpecCam == InitCam /\ [][NextCam]_vars

\* the frame slot: start(), the capture thread and the callers of get_frame()
NextFrame ==
  \/ \E t \in 1..Len(threads) : LoopTop(t)
  \/ \E t \in 1..Len(threads) : LoopCheck(t)
  \/ \E t \in 1..Len(threads) : ConnTest(t)
  \/ \E t \in 1..Len(threads) : ConnRelease(t)
  \/ \E t \in 1..Len(threads) : OpenBegin(t)
  \/ \E t \in 1..Len(threads) : OpenEnd(t)
  \/ \E t \in 1..Len(threads) : ConnCheck(t)
  \/ \E t \in 1..Len(threads) : ReadBegin(t)
  \/ \E t \in 1..Len(threads) : ReadEnd(t)
  \/ \E t \in 1..Len(threads) : Acquire(t)
  \/ \E t \in 1..Len(threads) : WriteFrame(t)
  \/ \E t \in 1..Len(threads) : WriteTime(t)
  \/ \E t \in 1..Len(threads) : Unlock(t)
  \/ \E t \in 1..Len(threads) : FailRelease(t)
  \/ \E t \in 1..Len(threads) : FailNone(t)
  \/ \E t \in 1..Len(threads) : ExcTest(t)
  \/ \E t \in 1..Len(threads) : ExcRelease(t)
  \/ \E t \in 1..Len(threads) : ExcNone(t)
  \/ \E t \in 1..Len(threads) : Wake(t)
  \/ StartCall
  \/ StartBody
  \/ StartReturn
  \/ \E r \in 1..NReaders : GetAcquire(r)
  \/ \E r \in 1..NReaders : GetTest(r)
  \/ \E r \in 1..NReaders : GetCopy(r)
  \/ \E r \in 1..NReaders : GetReturn(r)
  \/ Tick

SpecFrame == InitCam /\ [][NextFrame]_vars

\* A worker that is started and never stopped, in front of a camera that either
\* behaves in any way or refuses every connection.
InitDown ==
  /\ RecInit
  /\ CamInit
  /\ ManInit
  /\ cameras = {}
  /\ wpc = "new"
  /\ link \in {"any", "down"}
  /\ route = NoRequest
  /\ mock = "free"
  /\ config = [ffmpeg_reconnect_delay |-> FreeDelay, segment_duration |-> MaxSegment]

NextDown ==
  \/ \E t \in 1..Len(threads) : LoopTop(t)
  \/ \E t \in 1..Len(threads) : LoopCheck(t)
  \/ \E t \in 1..Len(threads) : ConnTest(t)
  \/ \E t \in 1..Len(threads) : ConnRelease(t)
  \/ \E t \in 1..Len(threads) : OpenBegin(t)
  \/ \E t \in 1..Len(threads) : OpenEnd(t)
  \/ \E t \in 1..Len(threads) : ConnCheck(t)
  \/ \E t \in 1..Len(threads) : ReadBegin(t)
  \/ \E t \in 1..Len(threads) : ReadEnd(t)
  \/ \E t \in 1..Len(threads) : Acquire(t)
  \/ \E t \in 1..Len(threads) : WriteFrame(t)
  \/ \E t \in 1..Len(threads) : WriteTime(t)
  \/ \E t \in 1..Len(threads) : Unlock(t)
  \/ \E t \in 1..Len(threads) : FailRelease(t)
  \/ \E t \in 1..Len(threads) : FailNone(t)
  \/ \E t \in 1..Len(threads) : ExcTest(t)
  \/ \E t \in 1..Len(threads) : ExcRelease(t)
  \/ \E t \in 1..Len(threads) : ExcNone(t)
  \/ \E t \in 1..Len(threads) : Wake(t)
  \/ StartCall
  \/ StartBody
  \/ StartReturn
  \/ TickCam

\* the steps of the capture loop on the path of a failing connection; the
\* refused open returns
ConnectStep ==
  \E t \in 1..Len(threads) :
    \/ LoopTop(t)
    \/ LoopCheck(t)
    \/ ConnTest(t)
    \/ ConnRelease(t)
    \/ OpenBegin(t)
    \/ OpenEnd(t)
    \/ ConnCheck(t)
    \/ Wake(t)

\* The threads are scheduled, a call of start() that was entered returns, and
\* time passes however often start() is called.
SpecDown ==
  /\ InitDown
  /\ [][NextDown]_vars
  /\ WF_vars(ConnectStep)
  /\ WF_vars(StartBody \/ StartReturn)
  /\ SF_vars(TickCam)

(* --------------------- RTSPWebServer: the /status route ---------------- *)
\* The route runs on a request thread of the server, for the CameraStream of
\* the camera modelled here.
\* status() is called and reaches this camera: camera.cap is not None
StatusCall ==
  /\ route.pc = "idle"
  /\ route' = [route EXCEPT !.pc = IF cap # 0 THEN "s_opened" ELSE "s_time"]
  /\ UNCHANGED << cameras, wpc, link >>
  /\ UNCHANGED << rvars, cvars, svars, mvars >>

\* ... and camera.cap.isOpened(): self.cap is read again; on None the
\* AttributeError leaves the route
StatusOpened ==
  /\ route.pc = "s_opened"
  /\ route' = IF cap = 0
                THEN [route EXCEPT !.pc = "s_raise"]
                ELSE [route EXCEPT !.pc = "s_time", !.connected = IsOpened(cap)]
  /\ UNCHANGED << cameras, wpc, link >>
  /\ UNCHANGED << rvars, cvars, svars, mvars >>

\* 'last_frame': camera.last_frame_time, read without taking frame_lock
StatusTime ==
  /\ route.pc = "s_time"
  /\ route' = [route EXCEPT !.pc = "s_ret", !.last_frame = last_frame_time.of]
  /\ UNCHANGED << cameras, wpc, link >>
  /\ UNCHANGED << rvars, cvars, svars, mvars >>

\* return status_info, or the AttributeError reaches the server
StatusReturn ==
  /\ route.pc \in {"s_ret", "s_raise"}
  /\ route' = NoRequest
  /\ UNCHANGED << cameras, wpc, link >>
  /\ UNCHANGED << rvars, cvars, svars, mvars >>

\* the frame slot with its three kinds of threads: the capture thread, the
\* callers of get_frame() and the /status route
NextStatus ==
  \/ NextFrame
  \/ StatusCall
  \/ StatusOpened
  \/ StatusTime
  \/ StatusReturn

SpecStatus == InitCam /\ [][NextStatus]_vars

\* the statements the capture thread executes while it holds the frame_lock
LockedStep == \E t \in 1..Len(threads) : WriteFrame(t) \/ WriteTime(t) \/ Unlock(t)

\* the statements of get_frame once it has the lock
GetStep(r) == GetTest(r) \/ GetCopy(r) \/ GetReturn(r)

\* The frame slot under scheduling assumptions on the lock alone: a thread
\* that holds the lock goes on, and a caller of get_frame (the generator of
\* video_feed calls it for ever) is not starved at the lock. Nothing is assumed
\* about cv2: an open or a read may never return.
SpecFrameFair ==
  /\ InitCam
  /\ [][NextFrame]_vars
  /\ WF_vars(LockedStep)
  /\ \A r \in 1..NReaders : WF_vars(GetStep(r)) /\ SF_vars(GetAcquire(r))

(* ------------------- a camera that comes back for good ----------------- *)
\* From this point on every open and every read succeeds. The step is taken
\* while the bound on handles leaves room for the one open that may follow.
Heal ==
  /\ link = "any"
  /\ Len(handles) < MaxHandles
  /\ link' = "up"
  /\ UNCHANGED << cameras, wpc, route >>
  /\ UNCHANGED << rvars, cvars, svars, mvars >>

\* the one client whose calls of get_frame are followed
Client == 1

\* the worker, start(), one client of get_frame and the camera coming back
NextHeal ==
  \/ \E t \in 1..Len(threads) : LoopTop(t)
  \/ \E t \in 1..Len(threads) : LoopCheck(t)
  \/ \E t \in 1..Len(threads) : ConnTest(t)
  \/ \E t \in 1..Len(threads) : ConnRelease(t)
  \/ \E t \in 1..Len(threads) : OpenBegin(t)
  \/ \E t \in 1..Len(threads) : OpenEnd(t)
  \/ \E t \in 1..Len(threads) : ConnCheck(t)
  \/ \E t \in 1..Len(threads) : ReadBegin(t)
  \/ \E t \in 1..Len(threads) : ReadEnd(t)
  \/ \E t \in 1..Len(threads) : Acquire(t)
  \/ \E t \in 1..Len(threads) : WriteFrame(t)
  \/ \E t \in 1..Len(threads) : WriteTime(t)
  \/ \E t \in 1..Len(threads) : Unlock(t)
  \/ \E t \in 1..Len(threads) : FailRelease(t)
  \/ \E t \in 1..Len(threads) : FailNone(t)
  \/ \E t \in 1..Len(threads) : ExcTest(t)
  \/ \E t \in 1..Len(threads) : ExcRelease(t)
  \/ \E t \in 1..Len(threads) : ExcNone(t)
  \/ \E t \in 1..Len(threads) : Wake(t)
  \/ StartCall
  \/ StartBody
  \/ StartReturn
  \/ GetAcquire(Client)
  \/ GetTest(Client)
  \/ GetCopy(Client)
  \/ GetReturn(Client)
  \/ Tick
  \/ TickStart
  \/ Heal

\* the steps of the capture thread, cv2 returning included
CaptureStep ==
  \E t \in 1..Len(threads) :
    \/ LoopTop(t)
    \/ LoopCheck(t)
    \/ ConnTest(t)
    \/ ConnRelease(t)
    \/ OpenBegin(t)
    \/ OpenEnd(t)
    \/ ConnCheck(t)
    \/ ReadBegin(t)
    \/ ReadEnd(t)
    \/ Acquire(t)
    \/ WriteFrame(t)
    \/ WriteTime(t)
    \/ Unlock(t)
    \/ FailRelease(t)
    \/ FailNone(t)
    \/ ExcTest(t)
    \/ ExcRelease(t)
    \/ ExcNone(t)
    \/ Wake(t)

\* get_frame is called while a frame younger than 10 units is in the slot
GetFresh(r) ==
  /\ last_frame # 0
  /\ Fresh(last_frame_time.age)
  /\ GetAcquire(r)

\* The capture thread is scheduled and cv2 returns, a call of start() that was
\* entered returns, time passes, a caller of get_frame that has the lock goes
\* on, and a client that polls (video_feed polls 30 times per unit) does call
\* at some moment at which the slot holds a fresh frame if such moments keep
\* coming. Time passes also while start() is under way. Nothing is assumed about when, or whether, the camera comes back.
SpecHeal ==
  /\ InitCam
  /\ [][NextHeal]_vars
  /\ SF_vars(CaptureStep)
  /\ WF_vars(StartBody \/ StartReturn)
  /\ SF_vars(Tick \/ TickStart)
  /\ WF_vars(GetStep(Client))
  /\ SF_vars(GetFresh(Client))

(* ===================== SystemManager (start_system.py) ================= *)
\* The manager has no clock in this model: time.sleep(30) is one step, and
\* process.wait(timeout=10) returns when the component has exited or raises
\* TimeoutExpired, whichever the run chooses. The cleaner thread started by
\* run() calls subprocess.run and never touches self.processes.

\* del self.processes[name]
Without(names, n) == SelectSeq(names, LAMBDA x : x # n)

Registers(names, n) == \E k \in 1..Len(names) : names[k] = n

\* run(): if not Path("config.json").exists(): return
RunCheck ==
  /\ mpc = "m_run"
  /\ mpc' = IF args.exists THEN "m_start" ELSE "m_exited"
  /\ mkeys' = IF args.exists THEN Components ELSE << >>
  /\ UNCHANGED << sm_processes, sm_running, children, mctx, minTry, msignals, args >>
  /\ UNCHANGED << rvars, cvars, wvars, svars >>

\* run(): if start_recorder: self.start_process(...); if start_web: ...; then
\* the try block is entered. start_process registers the component unless
\* Popen raises.
StartProcess ==
  /\ mpc = "m_start"
  /\ IF mkeys = << >>
       THEN /\ mpc' = "m_loop"
            /\ minTry' = TRUE
            /\ UNCHANGED << sm_processes, children, mkeys >>
       ELSE /\ mkeys' = Tail(mkeys)
            /\ UNCHANGED << mpc, minTry >>
            /\ \/ /\ args.start[Head(mkeys)]
                  /\ children' = [children EXCEPT ![Head(mkeys)] = "running"]
                  /\ sm_processes' = Append(sm_processes, Head(mkeys))
               \/ UNCHANGED << sm_processes, children >>
  /\ UNCHANGED << sm_running, mctx, msignals, args >>
  /\ UNCHANGED << rvars, cvars, wvars, svars >>

\* while self.running: ; when it is false the finally block runs
ManLoopTest ==
  /\ mpc = "m_loop"
  /\ IF sm_running
       THEN /\ mpc' = "m_sleep"
            /\ UNCHANGED << mctx, minTry, mkeys >>
       ELSE /\ mpc' = "m_sa"
            /\ mctx' = "finally"
            /\ minTry' = FALSE
            /\ mkeys' = sm_processes
  /\ UNCHANGED << sm_processes, sm_running, children, msignals, args >>
  /\ UNCHANGED << rvars, cvars, wvars, svars >>

\* time.sleep(30); check_processes: for name, process in list(self.processes.items()):
ManSleep ==
  /\ mpc = "m_sleep"
  /\ mpc' = "m_check"
  /\ mkeys' = sm_processes
  /\ UNCHANGED << sm_processes, sm_running, children, mctx, minTry, msignals, args >>
  /\ UNCHANGED << rvars, cvars, wvars, svars >>

\* process.poll() is not None
PollExitedNever(n) == FALSE

PollExited(n) == children[n] = "exited"

\* check_processes, one component: if process.poll() is not None:
\* del self.processes[name]
CheckProcesses ==
  /\ mpc = "m_check"
  /\ IF mkeys = << >>
       THEN /\ mpc' = "m_status"
            /\ UNCHANGED << sm_processes, mkeys >>
       ELSE /\ mkeys' = Tail(mkeys)
            /\ sm_processes' = IF PollExited(Head(mkeys))
                                 THEN Without(sm_processes, Head(mkeys))
                                 ELSE sm_processes
            /\ UNCHANGED mpc
  /\ UNCHANGED << sm_running, children, mctx, minTry, msignals, args >>
  /\ UNCHANGED << rvars, cvars, wvars, svars >>

\* if int(time.time()) % 300 == 0: print(len(self.processes))
ManStatus ==
  /\ mpc = "m_status"
  /\ mpc' = "m_loop"
  /\ UNCHANGED << sm_processes, sm_running, children, mctx, minTry, mkeys, msignals, args >>
  /\ UNCHANGED << rvars, cvars, wvars, svars >>

\* stop_all_processes: for name in list(self.processes.keys()): ; at its end
\* the handler goes on to sys.exit(0) and the finally block ends run()
StopAllProcesses ==
  /\ mpc = "m_sa"
  /\ mpc' = IF mkeys # << >> THEN "m_st_check"
            ELSE IF mctx = "handler" THEN "m_sig_exit" ELSE "m_exited"
  /\ UNCHANGED << sm_processes, sm_running, children, mctx, minTry, mkeys, msignals, args >>
  /\ UNCHANGED << rvars, cvars, wvars, svars >>

\* stop_process: if name in self.processes: if process.poll() is None:
StopProcessCheck ==
  /\ mpc = "m_st_check"
  /\ IF Registers(sm_processes, Head(mkeys))
       THEN /\ mpc' = IF children[Head(mkeys)] = "running" THEN "m_st_term" ELSE "m_st_del"
            /\ UNCHANGED mkeys
       ELSE /\ mpc' = "m_sa"
            /\ mkeys' = Tail(mkeys)
  /\ UNCHANGED << sm_processes, sm_running, children, mctx, minTry, msignals, args >>
  /\ UNCHANGED << rvars, cvars, wvars, svars >>

\* process.terminate()
StopProcessTerminate ==
  /\ mpc = "m_st_term"
  /\ mpc' = "m_st_wait"
  /\ UNCHANGED << sm_processes, sm_running, children, mctx, minTry, mkeys, msignals, args >>
  /\ UNCHANGED << rvars, cvars, wvars, svars >>

\* process.wait(timeout=10) returns, or raises TimeoutExpired
StopProcessWait ==
  /\ mpc = "m_st_wait"
  /\ mpc' = IF children[Head(mkeys)] = "exited" THEN "m_st_del" ELSE "m_st_kill"
  /\ UNCHANGED << sm_processes, sm_running, children, mctx, minTry, mkeys, msignals, args >>
  /\ UNCHANGED << rvars, cvars, wvars, svars >>

\* process.kill()
StopProcessKill ==
  /\ mpc = "m_st_kill"
  /\ children' = [children EXCEPT ![Head(mkeys)] = "exited"]
  /\ mpc' = "m_st_del"
  /\ UNCHANGED << sm_processes, sm_running, mctx, minTry, mkeys, msignals, args >>
  /\ UNCHANGED << rvars, cvars, wvars, svars >>

\* del self.processes[name]
StopProcessDel ==
  /\ mpc = "m_st_del"
  /\ sm_processes' = Without(sm_processes, Head(mkeys))
  /\ mkeys' = Tail(mkeys)
  /\ mpc' = "m_sa"
  /\ UNCHANGED << sm_running, children, mctx, minTry, msignals, args >>
  /\ UNCHANGED << rvars, cvars, wvars, svars >>

\* _signal_handler, on the main thread at any point: self.running = False;
\* self.stop_all_processes()
ManSignalHandler ==
  /\ mpc # "m_exited"
  /\ msignals < MaxSignals
  /\ msignals' = msignals + 1
  /\ sm_running' = FALSE
  /\ mctx' = "handler"
  /\ mkeys' = sm_processes
  /\ mpc' = "m_sa"
  /\ UNCHANGED << sm_processes, children, minTry, args >>
  /\ UNCHANGED << rvars, cvars, wvars, svars >>

\* sys.exit(0) in the handler: the finally block of run() runs if the try block
\* was entered
ManSigExit ==
  /\ mpc = "m_sig_exit"
  /\ IF minTry
       THEN /\ mpc' = "m_sa"
            /\ mctx' = "finally"
            /\ minTry' = FALSE
            /\ mkeys' = sm_processes
       ELSE /\ mpc' = "m_exited"
            /\ UNCHANGED << mctx, minTry, mkeys >>
  /\ UNCHANGED << sm_processes, sm_running, children, msignals, args >>
  /\ UNCHANGED << rvars, cvars, wvars, svars >>

\* recorder.py or app.py ends on its own or after terminate()
ChildExit ==
  /\ \E n \in Names :
       /\ children[n] = "running"
       /\ children' = [children EXCEPT ![n] = "exited"]
  /\ UNCHANGED << sm_processes, sm_running, mpc, mctx, minTry, mkeys, msignals, args >>
  /\ UNCHANGED << rvars, cvars, wvars, svars >>

\* run() is called with any arguments, with or without a config.json
InitMan ==
  /\ RecInit
  /\ CamInit
  /\ WebInit
  /\ mock = "free"
  /\ config = [ffmpeg_reconnect_delay |-> FreeDelay, segment_duration |-> MaxSegment]
  /\ sm_processes = << >>
  /\ sm_running = TRUE
  /\ children = [n \in Names |-> "none"]
  /\ mpc = "m_run"
  /\ mctx = "main"
  /\ minTry = FALSE
  /\ mkeys = << >>
  /\ msignals = 0
  /\ args \in [start : [Names -> BOOLEAN], exists : BOOLEAN]

NextMan ==
  \/ RunCheck
  \/ StartProcess
  \/ ManLoopTest
  \/ ManSleep
  \/ CheckProcesses
  \/ ManStatus
  \/ StopAllProcesses
  \/ StopProcessCheck
  \/ StopProcessTerminate
  \/ StopProcessWait
  \/ StopProcessKill
  \/ StopProcessDel
  \/ ManSignalHandler
  \/ ManSigExit
  \/ ChildExit

SpecMan == InitMan /\ [][NextMan]_vars

(* ------------------------------ helpers ------------------------------- *)
ProcsOf(c) == {p \in 1..Len(procs) : procs[p].cam = c}
RunningOf(c) == {p \in ProcsOf(c) : procs[p].state = "running"}

TypeOK ==
  /\ now \in 0..Horizon
  /\ Len(procs) <= MaxProcs
  /\ rec_running \in BOOLEAN

(* ======================= properties of the recorder ==================== *)
Shutdown == {"sa_iter", "st_check", "st_term", "st_wait", "st_kill", "st_del",
             "sig_exit", "exited"}

\* C1: in every reachable state, whatever the interleaving of start_recording,
\* stop_recording, stop_all_recordings, check_and_restart_recordings, signals
\* and subprocess exits, each camera has at most one launched transcoder that
\* is still running (so no launch happens while the previous one is alive).
AtMostOneRunningPerCamera ==
  \A c \in CamIds : Cardinality(RunningOf(c)) <= 1

\* a camera was relaunched after its first transcoder exited, and shutdown began
RelaunchedThenSignalled ==
  \E c \in CamIds :
    /\ Cardinality(ProcsOf(c)) >= 2
    /\ Cardinality(RunningOf(c)) = 1
    /\ signals >= 1

\* C8: when check_and_restart_recordings returns, every enabled camera found
\* unregistered or exited had its old handle discarded and start_recording
\* called exactly once; every camera found running got no launch and keeps
\* its handle.
ReconcilePostcondition ==
  rpc = "status" =>
    \A c \in CamIds :
      /\ c \in EnabledIds => pass[c].seen # "none"
      /\ c \notin EnabledIds => pass[c] = NoPass[c]
      /\ pass[c].seen \in {"absent", "exited"} =>
           /\ pass[c].calls = 1
           /\ pass[c].old # 0 =>
                ~(InProcesses(processes, c) /\ Handle(processes, c) = pass[c].old)
      /\ pass[c].seen = "running" =>
           /\ pass[c].calls = 0
           /\ pass[c].launched = 0
           /\ InProcesses(processes, c)
           /\ Handle(processes, c) = pass[c].old

\* a pass that restarted an exited camera and left a running one alone
ReconcileMixedPass ==
  /\ rpc = "status"
  /\ \E c, d \in EnabledIds :
       /\ pass[c].seen = "exited"
       /\ pass[c].calls = 1
       /\ pass[d].seen = "running"

\* C9: a transcoder found exited at the settle poll is not registered (the
\* camera has no table entry afterwards), only a signal ends the supervisor,
\* the next pass calls start_recording for the camera again, and every
\* registered handle was running at its settle poll.
ImmediateFailureHandled ==
  /\ \A k \in 1..Len(processes) : procs[processes[k].pid].settle = "running"
  /\ \A c \in CamIds : immediate[c] => ~InProcesses(processes, c)
  /\ (rpc \in Shutdown \/ ~rec_running) => signals >= 1
  /\ rpc = "status" => \A c \in CamIds : immediate[c] => pass[c].calls = 1

\* a camera whose transcoder failed at once was retried by a later pass
ImmediateFailureRetried ==
  /\ rpc = "status"
  /\ \E c \in EnabledIds :
       /\ pass[c].seen = "absent"
       /\ pass[c].calls = 1
       /\ \E p \in ProcsOf(c) : procs[p].settle = "exited" /\ p < Len(procs)
       /\ Cardinality(ProcsOf(c)) >= 2

\* C10 as stated: after T reconcile ticks floor(T / segment_duration) + 1
\* segments have been launched for every enabled camera.
SegmentCountByTicks ==
  rpc = "status" =>
    \A c \in EnabledIds :
      Cardinality(ProcsOf(c)) = (ticks \div config.segment_duration) + 1

FirstStart(c) == procs[CHOOSE p \in ProcsOf(c) : \A q \in ProcsOf(c) : p <= q].start

\* C10 amended: with a transcoder that exits successfully after
\* segment_duration, a camera first launched at t0 has at most
\* floor((now - t0) / segment_duration) + 1 segments launched, and all launched
\* segments have distinct output filenames.
SegmentChaining ==
  /\ \A c \in CamIds :
       ProcsOf(c) # {} =>
         Cardinality(ProcsOf(c)) <= ((now - FirstStart(c)) \div config.segment_duration) + 1
  /\ \A p, q \in 1..Len(procs) : p # q => procs[p].file # procs[q].file

\* a pass ended with a second segment of some camera launched
SecondSegmentLaunched ==
  /\ rpc = "status"
  /\ \E c \in EnabledIds :
       /\ Cardinality(ProcsOf(c)) >= 2
       /\ \E p \in ProcsOf(c) : procs[p].returncode = 0

(* ===================== properties of the camera worker ================= *)
LiveThreads == {t \in 1..Len(threads) : Live(t)}

\* C2: get_frame returns None when no frame was ever written or the latest
\* written frame is 10 or more units old, and otherwise the content of the
\* most recently written frame.
GetFrameStaleness ==
  \A r \in 1..NReaders :
    readers[r].pc = "g_ret" => readers[r].res = readers[r].exp

\* get_frame refused a frame that had been written and had aged 10 units
StaleFrameRefused ==
  \E r \in 1..NReaders :
    /\ readers[r].pc = "g_ret"
    /\ readers[r].res = 0
    /\ committed.frame # 0
    /\ committed.age = StaleAfter

\* C3: with a capture writer and N concurrent readers interleaved statement by
\* statement, a frame returned by get_frame and the timestamp its freshness
\* was judged by come from one single write.
NoTornRead ==
  \A r \in 1..NReaders :
    (readers[r].pc = "g_ret" /\ readers[r].res # 0) => readers[r].tsOf = readers[r].res

\* a reader got the first frame while the write of the second one was half done
ReadDuringWrite ==
  \E r \in 1..NReaders, t \in 1..Len(threads) :
    /\ readers[r].pc = "g_ret"
    /\ readers[r].res # 0
    /\ threads[t].pc = "w_time"
    /\ last_frame # readers[r].res

\* C4: once stop() has returned, every capture handle that was opened has been
\* released exactly once, and none is open or becomes open.
ReleasedExactlyOnceAfterStop ==
  stopped =>
    \A h \in 1..Len(handles) :
      handles[h].opened => (handles[h].state = "released" /\ handles[h].released = 1)

\* C5: at most one capture-loop thread is live at any instant.
SingleCaptureThread == Cardinality(LiveThreads) <= 1

\* C6: start() called while running launches no thread and leaves running and
\* self.thread alone; called while not running it sets running and launches
\* exactly one capture loop.
StartIdempotent ==
  ctl.pc = "start_ret" =>
    /\ cs_running
    /\ IF ctl.wasRunning
         THEN Len(threads) = ctl.n /\ thread = ctl.t
         ELSE Len(threads) = ctl.n + 1 /\ thread = Len(threads)

\* start() was called while the worker was running
StartWhileRunning ==
  /\ ctl.pc = "start_ret"
  /\ ctl.wasRunning
  /\ Len(threads) >= 1

\* C7: when stop() was called with its capture thread blocked in a read and
\* returns with the read still not completed, release has been invoked on the
\* handle of that read.
StopReleasesBlockedRead ==
  (/\ ctl.pc = "stop_ret"
   /\ ctl.rd # 0
   /\ threads[thread].pc = "reading"
   /\ threads[thread].h = ctl.rd)
    => handles[ctl.rd].released >= 1

(* ================== properties of the shutdown sequence ================ *)
\* C11: stop_recording issues terminate only to the registered process that its
\* poll found running, and kill only to that process after terminate, once it
\* has stayed running through the whole 10-unit wait; a process that exited
\* during the wait, or that the poll found exited, gets neither.
StopEscalation ==
  [][ /\ \A p \in 1..Len(procs) :
           /\ (~procs[p].terminated /\ procs'[p].terminated)
                => (rpc = "st_term" /\ p = process /\ ~procs[p].killed)
           /\ (~procs[p].killed /\ procs'[p].killed)
                => (rpc = "st_kill" /\ p = process /\ procs[p].terminated)
      /\ (rpc # "st_term" /\ rpc' = "st_term")
           => /\ rpc = "st_check"
              /\ InProcesses(processes, cur)
              /\ PollNone(Handle(processes, cur))
              /\ process' = Handle(processes, cur)
      /\ (rpc # "st_kill" /\ rpc' = "st_kill")
           => /\ rpc = "st_wait"
              /\ procs[process].terminated
              /\ PollNone(process)
              /\ sleepLeft = 0
      /\ (rpc = "st_check" /\ InProcesses(processes, cur)
            /\ ~PollNone(Handle(processes, cur)))
           => rpc' \notin {"st_term", "st_wait", "st_kill"}
      /\ (rpc = "st_wait" /\ ~PollNone(process))
           => rpc' # "st_kill"
    ]_vars

\* one process was killed after the full wait and another one exited after
\* terminate alone
KilledAndTerminated ==
  \E p, q \in 1..Len(procs) :
    /\ procs[p].killed /\ procs[p].terminated
    /\ procs[q].terminated /\ ~procs[q].killed /\ procs[q].state = "exited"

\* C12: when stop_recording(c) returns, c has no entry in the process table
\* whatever state its handle was in, every other entry is as it was and its
\* process was left alone (so on an unregistered c nothing changed); when
\* stop_all_recordings returns the table is empty.
StopUnregisters ==
  /\ (caller = "stop_recording" /\ rpc \in {"sa_iter", "exited"}) =>
       /\ ~InProcesses(processes, cur)
       /\ \A k \in 1..Len(procs) :
            procs[k].cam # cur =>
              /\ InProcesses(processes, procs[k].cam)
              /\ Handle(processes, procs[k].cam) = k
              /\ ~procs[k].terminated
              /\ ~procs[k].killed
  /\ (caller = "stop_all" /\ rpc = "exited") => processes = << >>

\* stop_recording returned after killing the process of its camera, with the
\* other camera still registered
StoppedByKill ==
  /\ caller = "stop_recording"
  /\ rpc = "sa_iter"
  /\ Len(processes) = 1
  /\ \E k \in 1..Len(procs) : procs[k].cam = cur /\ procs[k].killed

\* C13: a termination signal delivered while the shutdown sequence of an
\* earlier one is in progress issues no further terminate: terminate is never
\* about to be called on a process it was already called on.
SecondSignalIsNoOp ==
  rpc = "st_term" => ~procs[process].terminated

\* C15: when the recorder has exited, every transcoder it launched has exited
\* or has been sent terminate or kill.
NoOrphanAtExit ==
  rpc = "exited" =>
    \A p \in 1..Len(procs) :
      procs[p].state = "exited" \/ procs[p].terminated \/ procs[p].killed

DisabledCamerasUntouched ==
  \A c \in CamIds \ EnabledIds :
    /\ c \notin cameras
    /\ \A p \in 1..Len(procs) : procs[p].cam # c
    /\ ~InProcesses(processes, c)

\* the web server created its workers and the recorder has completed a
\* reconcile pass with both enabled cameras registered
ServingAndReconciled ==
  /\ wpc = "serving"
  /\ cameras = EnabledIds
  /\ ticks >= 1
  /\ rpc = "status"
  /\ \A c \in EnabledIds : InProcesses(processes, c)

\* C17: in front of a camera whose open always fails, a running worker never
\* has an open handle, never reads or writes a frame, and its capture thread
\* never ends; every failed attempt is followed by a sleep of 5 units that
\* runs to its end before the next attempt, and every attempt the handle
\* bound allows is eventually made.
Connecting == {"top", "chk", "conn_test", "conn_rel", "open", "opening", "conn_chk", "sleep"}

RetriesWhileDown ==
  /\ [](link = "down" =>
          /\ \A t \in 1..Len(threads) : threads[t].pc \in Connecting
          /\ \A h \in 1..Len(handles) : handles[h].state # "open"
          /\ last_frame = 0
          /\ nframes = 0)
  /\ [][link = "down" =>
          \A t \in 1..Len(threads) :
            /\ (threads[t].pc = "conn_chk" /\ threads'[t].pc # "conn_chk")
                 => (threads'[t].pc = "sleep" /\ threads'[t].left = 5)
            /\ (threads[t].pc # "sleep" /\ threads'[t].pc = "sleep")
                 => threads[t].pc = "conn_chk"
            /\ (threads[t].pc = "sleep" /\ threads'[t].pc = "sleep")
                 => threads'[t].left \in {threads[t].left, threads[t].left - 1}
            /\ (threads[t].pc = "sleep" /\ threads'[t].pc # "sleep")
                 => (threads[t].left = 0 /\ threads'[t].pc = "top")
            /\ (threads[t].pc # "opening" /\ threads'[t].pc = "opening")
                 => Len(handles') = Len(handles) + 1
     ]_vars
  /\ (link = "down" /\ cs_running) ~> (Len(handles) = MaxHandles)

\* the worker is in its second backoff after two refused connections
SecondBackoff ==
  /\ link = "down"
  /\ Len(handles) = 2
  /\ \E t \in 1..Len(threads) : threads[t].pc = "sleep" /\ threads[t].left = 3

\* C18: when a reconcile pass has ended and the launch for some camera failed
\* in it (Popen raised, or the process had exited at the settle poll), that
\* camera has no handle, the supervisor still runs, and the pass examined every
\* enabled camera and called start_recording for each one it did not find
\* running; a camera without a handle at the end of a pass is always one whose
\* launch was attempted in that pass.
LaunchFailedInPass(c) ==
  pass[c].calls = 1 /\ (pass[c].launched = 0 \/ immediate[c])

LaunchFailureIsolated ==
  rpc = "status" =>
    /\ \A c \in EnabledIds :
         LaunchFailedInPass(c) =>
           /\ ~InProcesses(processes, c)
           /\ rec_running
           /\ \A d \in EnabledIds :
                /\ pass[d].seen # "none"
                /\ pass[d].seen # "running" => pass[d].calls = 1
    /\ \A c \in EnabledIds : ~InProcesses(processes, c) => LaunchFailedInPass(c)

\* Popen raised for the first camera and the second one was relaunched and
\* registered in the same pass
FailedAndLaunchedInOnePass ==
  /\ rpc = "status"
  /\ pass[1].calls = 1 /\ pass[1].launched = 0
  /\ pass[2].launched = 1 /\ InProcesses(processes, 2)

\* C19: the capture loop tests self.running at the top of every iteration: a
\* thread that finds it false there ends, the body of an iteration (and so
\* every open attempt and every read) is entered only through a test that
\* found it true, and a sleeping or ended thread begins nothing.
Between == {"top", "sleep", "dead", "crashed"}

LoopExitsWhenStopped ==
  [][ \A t \in 1..Len(threads) :
        /\ (threads[t].pc = "top" /\ threads'[t].pc # "top")
             => threads'[t].pc = (IF cs_running THEN "chk" ELSE "dead")
        /\ (threads[t].pc = "sleep" /\ threads'[t].pc # "sleep")
             => threads'[t].pc = "top"
        /\ threads[t].pc \in {"dead", "crashed"} => threads'[t].pc = threads[t].pc
        /\ (threads[t].pc \in Between /\ threads'[t].pc \notin Between)
             => (threads[t].pc = "top" /\ threads'[t].pc = "chk" /\ cs_running)
    ]_vars

\* stop() has returned and a capture thread that had opened a handle has left
\* its loop
ThreadEndedAfterStop ==
  /\ stopped
  /\ ~cs_running
  /\ Len(handles) >= 1
  /\ \E t \in 1..Len(threads) : threads[t].pc = "dead"

\* C20: with transcoders that exit after the segment duration, a camera whose
\* latest subprocess has exited gets a new one within ffmpeg_reconnect_delay
\* units of that exit.
RestartWithinInterval ==
  \A p \in 1..Len(procs) :
    (/\ procs[p].state = "exited"
     /\ Len(procs) < MaxProcs
     /\ ~\E q \in 1..Len(procs) : q > p /\ procs[q].cam = procs[p].cam)
      => now <= procs[p].start + config.segment_duration + config.ffmpeg_reconnect_delay

(* =================== properties of the capture handle ================== *)
\* C21: a capture handle is used by one thread at a time: no thread has a read
\* in flight on a handle on which release has been invoked, be it that another
\* thread released it during the read or that the read was issued after the
\* release.
HandleUsedByOneThread ==
  \A t \in 1..Len(threads) :
    threads[t].pc = "reading" => handles[threads[t].h].state # "released"

(* ===================== properties of the frame slot ==================== *)
\* C22: every thread that is at a read or a write of last_frame or of
\* last_frame_time holds the frame_lock: the capture thread at its two
\* assignments, a caller of get_frame at its test and its copy, and the /status
\* route at its read of last_frame_time.
FrameAccessUnderLock ==
  /\ \A t \in 1..Len(threads) :
       threads[t].pc \in {"w_frame", "w_time"} => frame_lock = << "capture", t >>
  /\ \A r \in 1..NReaders :
       readers[r].pc \in {"g_test", "g_copy"} => frame_lock = << "reader", r >>
  /\ route.pc = "s_time" => frame_lock = << "status" >>

Streaming ==
  /\ cap # 0
  /\ IsOpened(cap)
  /\ \E t \in 1..Len(threads) :
       threads[t].pc \in {"read", "reading", "lock", "w_frame", "w_time", "unlock"}

\* C24: while running is true, once the camera is up for good, whatever
\* failures came before, the worker reaches STREAMING and a call of get_frame
\* returns a frame.
TransientErrorsNotFatal ==
  /\ (link = "up" /\ cs_running) ~> Streaming
  /\ (link = "up" /\ cs_running) ~> (readers[Client].res # 0)

\* every open but the last one the bound allows was refused, so the camera came
\* back before the last open, and get_frame returns a frame read after that
FrameAfterFailure ==
  /\ link = "up"
  /\ Len(handles) = MaxHandles
  /\ \A h \in 1..(MaxHandles - 1) : ~handles[h].opened
  /\ readers[Client].res # 0

\* C25: a failed read makes the thread release the handle of the worker, clear
\* the reference and sleep 2 units; an exception makes it release the handle if
\* there is one, clear the reference and sleep 5 units; a sleep is waited out
\* before the loop goes on to the next open; none of these steps changes the
\* cached frame or its timestamp.
FailureBackoff ==
  [][\A t \in 1..Len(threads) :
       /\ (threads[t].pc = "fail_rel" /\ threads'[t].pc # "fail_rel")
            => (/\ cap # 0
                /\ handles'[cap].state = "released"
                /\ threads'[t].pc = "fail_none")
       /\ (threads[t].pc = "fail_none" /\ threads'[t].pc # "fail_none")
            => (cap' = 0 /\ threads'[t].pc = "sleep" /\ threads'[t].left = 2)
       /\ (threads[t].pc = "exc" /\ threads'[t].pc # "exc")
            => IF cap # 0
                 THEN threads'[t].pc = "exc_rel"
                 ELSE threads'[t].pc = "sleep" /\ threads'[t].left = 5
       /\ (threads[t].pc = "exc_rel" /\ threads'[t].pc # "exc_rel")
            => (/\ cap # 0
                /\ handles'[cap].state = "released"
                /\ threads'[t].pc = "exc_none")
       /\ (threads[t].pc = "exc_none" /\ threads'[t].pc # "exc_none")
            => (cap' = 0 /\ threads'[t].pc = "sleep" /\ threads'[t].left = 5)
       /\ (threads[t].pc = "sleep" /\ threads'[t].pc # "sleep")
            => (threads[t].left = 0 /\ threads'[t].pc = "top")
       /\ (/\ threads[t].pc \in {"fail_rel", "fail_none", "exc", "exc_rel", "exc_none"}
           /\ threads'[t] # threads[t])
            => (last_frame' = last_frame /\ last_frame_time' = last_frame_time)
    ]_vars

(* ===================== properties of start_recording =================== *)
\* the camera c has a registered subprocess that is still running
RegisteredRunning(c) ==
  \E k \in 1..Len(processes) :
    processes[k].cam = c /\ procs[processes[k].pid].state = "running"

\* C26: start_recording for a camera whose registered subprocess is still
\* running returns at once: no process is launched and the process table is
\* left as it was.
StartWhileRecordingIsNoOp ==
  [][(rpc = "sr_guard" /\ RegisteredRunning(cur) /\ rpc' # rpc)
       => (/\ rpc' = caller
           /\ processes' = processes
           /\ procs' = procs)]_vars

\* the call has returned at the instant it was made, its camera registered and
\* running
ReturnedWhileRecording ==
  /\ rpc = "start_recording"
  /\ now = 0
  /\ RegisteredRunning(cur)

(* ===================== properties of the status line =================== *)
\* C27: while the supervisor loop runs, no more than StatusPeriod units pass
\* without a status line, counted from the start of the loop or from the last
\* line.
StatusCadence ==
  rpc \in {"loop_test", "loop_sleep", "car", "status"}
    => now - last_status <= StatusPeriod

(* ================== properties of the configuration ==================== *)
\* C28: when config.json is missing or is not JSON, the recorder ends without
\* a transcoder launched and without entering run(), and the web server has no
\* camera worker (capture handles exist only inside a worker) and does not
\* serve.
ConfigFailureIsFatal ==
  config_file # "ok" =>
    /\ rpc \in {"load", "exited"}
    /\ procs = << >>
    /\ processes = << >>
    /\ ticks = 0
    /\ cameras = {}
    /\ wpc \in {"new", "ended"}

\* both programs have ended on a config file that could not be loaded
BothEndedWithoutConfig ==
  /\ config_file # "ok"
  /\ rpc = "exited"
  /\ wpc = "ended"

\* C29: a worker has at most one open capture handle, and an open handle is
\* the one that self.cap refers to.
AtMostOneOpenHandle ==
  /\ Cardinality({h \in 1..Len(handles) : handles[h].state = "open"}) <= 1
  /\ \A h \in 1..Len(handles) : handles[h].state = "open" => cap = h

(* ================= properties of the shutdown initiation =============== *)
\* C30: once a termination signal has set the running flag to false, the flag
\* stays false and no transcoder is launched, wherever the signal found the
\* main thread.
NoLaunchAfterShutdown ==
  [][~rec_running => (~rec_running' /\ Len(procs') = Len(procs))]_vars

\* the signal arrived inside a reconcile pass, during the settle delay of a
\* relaunch (the launches of the startup were all polled before the first
\* pass), and the recorder has exited
SignalledInsidePass ==
  /\ rpc = "exited"
  /\ signals >= 1
  /\ ticks >= 1
  /\ \E p \in 1..Len(procs) : procs[p].settle = "pending"

(* =================== properties of the SystemManager =================== *)
\* C31: the manager never restarts a component. A step of check_processes on a
\* component removes it from the table if its process has exited and leaves
\* the table as it is if the process still runs; once the startup of run() is
\* over no name is added to the table, so the number of registered components
\* never increases, and no component process is started.
NeverRestarts ==
  [][/\ (mpc = "m_check" /\ mkeys # << >> /\ mpc' = "m_check" /\ mkeys' # mkeys)
          => IF children[Head(mkeys)] = "exited"
               THEN ~Registers(sm_processes', Head(mkeys))
               ELSE sm_processes' = sm_processes
     /\ (mpc \notin {"m_run", "m_start"})
          => (/\ \A n \in Names : Registers(sm_processes', n) => Registers(sm_processes, n)
              /\ Len(sm_processes') <= Len(sm_processes)
              /\ \A n \in Names : children'[n] = "running" => children[n] = "running")
    ]_vars

\* the loop goes on with the web server alone: the recorder was started, has
\* exited and was removed by check_processes, no signal having arrived
RemovedByCheck ==
  /\ mpc = "m_status"
  /\ msignals = 0
  /\ children["Grabador"] = "exited"
  /\ children["Servidor Web"] = "running"
  /\ sm_processes = << "Servidor Web" >>

====
